---- MODULE Spec2Model ----
(***************************************************************************)
(* Phoenix Engine v2: the hybrid root solver (core/math/solver.py), the    *)
(* Panchanga event finder (vedic/panchanga/finder.py, temporal.py) and the *)
(* Swiss Ephemeris session context (infrastructure/.../swiss/manager.py).  *)
(*                                                                         *)
(* Numbers.  A Julian Day is an integer: the grid of representable         *)
(* instants.  Values and speeds of f are integers.  The two float          *)
(* operations of the solver that can leave the grid, the Newton quotient   *)
(* v / spd and the midpoint (a + b) / 2, round to the grid (RoundDiv, Mid) *)
(* as the float operations round to the nearest float.  tol_days is a      *)
(* whole number of grid points >= 1, the acceptance threshold 1e-14 of     *)
(* Newton is VEps value units.                                             *)
(***************************************************************************)
EXTENDS Integers, Sequences, FiniteSets, TLC

VARIABLES
    pc,      \* where solve_root is: idle, scan0, scan, newton, bisect0, bisect, done, raised
    fn,      \* the function f handed to solve_root (its kind and parameters)
    par,     \* the arguments of solve_root
    val,     \* table f: the values f has returned so far (f is deterministic)
    spd,     \* table f: the speeds f has returned so far
    x,       \* bracket_root: scan point x; newton_speed_assisted: iterate x
    sa,      \* bracket_root: sign at x
    br,      \* the bracket (a, b) returned by bracket_root
    it,      \* iteration counter of Newton / bisection
    lo,      \* bisection: lo
    hi,      \* bisection: hi
    vlo,     \* bisection: value at lo
    res,     \* the SolveResult returned, or None
    err,     \* the exception solve_root raised, or "none"
    hist,    \* what the call went through (observations for the properties)
    lockOwner,  \* _GLOBAL_SWISS_LOCK: the thread that holds it, or NoThread
    lockCount,  \* _GLOBAL_SWISS_LOCK: its recursion level (threading.RLock)
    tpc,        \* per thread: run, acquire (at _lock.acquire()), install (in __enter__)
    pend,       \* per thread: the SwissContext being entered: its config and its _topo_used
    stack,      \* per thread: the SwissContext objects between entry and exit, innermost last
    exc,        \* per thread: an exception is propagating
    started,    \* per thread: with-statements begun so far
    kept,       \* per thread: it holds a SwissContext it has exited whose _topo_used is True
    engine,     \* the engine's global state: ephemeris path, sidereal mode, topocentric origin
    calls,      \* the provider calls made so far: who asked what, what came back
    prov,       \* the Providers constructed outside a session, in the order of their construction
    objs,    \* calibration: the sub-records that exist, by address
    insts,   \* calibration: the CalibrationConfig instances that exist
    edits,   \* calibration: attribute assignments made so far
    sigOut,  \* calibration: what the latest call of signature() returned
    acall,   \* math helpers: the latest call of one, arguments and result
    ext      \* angles: extend_angle_range in its loop, or None

svars == <<pc, fn, par, val, spd, x, sa, br, it, lo, hi, vlo, res, err, hist>>

tvars == <<lockOwner, lockCount, tpc, pend, stack, exc, started, kept, engine>>

pvars == <<calls, prov>>

cvars == <<objs, insts, edits, sigOut>>

avars == <<acall, ext>>

xvars == <<pvars, cvars, avars>>

vars == <<pc, fn, par, val, spd, x, sa, br, it, lo, hi, vlo, res, err, hist,
          lockOwner, lockCount, tpc, pend, stack, exc, started, kept, engine,
          calls, prov, objs, insts, edits, sigOut, acall, ext>>

None == [none |-> TRUE]

---------------------------------------------------------------------------
(* Bounds of the model *)

MaxJd == 5          \* tabulated f: the window is 0 .. MaxJd
MaxVal == 3         \* tabulated f: values lie in -MaxVal .. MaxVal
MaxSpd == 2         \* tabulated f: speeds lie in -MaxSpd .. MaxSpd
MaxRoot == 6        \* affine f: the window is 0 .. MaxRoot, the root lies in it
MaxSlope == 3       \* affine f: the slope s lies in -MaxSlope .. MaxSlope, s # 0
MaxTol == 2         \* tol_days ranges over 1 .. MaxTol
MaxNewtonIter == 2  \* tabulated f: newton_max_iter is 1 or MaxNewtonIter
MaxBisectIter == 2  \* tabulated f: bisection_max_iter
NumThreads == 2     \* sessions: the threads of the process
MaxEnters == 2      \* sessions: with-statements a thread begins
MaxProviderEnters == 3   \* sessions the caller of the Provider begins
MaxOracleEnters == 2     \* sessions the caller begins when the engine may raise
MaxInstances == 2   \* calibration: CalibrationConfig instances constructed
MaxEdits == 1       \* calibration: attribute assignments made
MaxOffset == 1      \* calibration: a float field lies in 0 .. MaxOffset
MaxTurns == 2       \* angles: an angle lies within MaxTurns periods of 0
MaxTarget == 300    \* angles: a target lies in 0 .. MaxTarget
MaxSeq == 3         \* angles: samples handed to unwrap_angles
MaxIncr == 2        \* angles: small increments of a sequence, -MaxIncr .. MaxIncr
MaxBase == 2        \* angles: length of the input of extend_angle_range
MaxSpanTurns == 3   \* angles: the span is at most MaxSpanTurns periods
MaxPasses == 3      \* angles: passes of the loop of extend_angle_range followed
MaxCalls == 2       \* provider: calls recorded
MaxScanWindow == 10 \* bracket_root on floats: end_jd - start_jd
MaxFineWindow == 3 \* bracket_root with a fine step: end_jd - start_jd
MaxNodeCalls == 2   \* provider on its own: calls of planet_lon_speed recorded
MaxRiseCalls == 2   \* provider on its own: calls of rise_set recorded
MaxScanEvals == 8 \* evaluations of f counted in one scan on floats
MaxQueryJd == 1     \* provider: a call's jd_ut lies in 0 .. MaxQueryJd
MaxSamples == 3     \* interpolation: samples handed to inverse_lagrange
MaxY == 4           \* interpolation: a y lies in 0 .. MaxY
MaxYTarget == 6     \* interpolation: y_target lies in 0 .. MaxYTarget

---------------------------------------------------------------------------
(* Arithmetic *)

Abs(n) == IF n < 0 THEN -n ELSE n

Min(m, n) == IF m < n THEN m ELSE n

\* solver.py _sign
Sign(v) == IF v > 0 THEN 1 ELSE IF v < 0 THEN -1 ELSE 0

\* mutant of RoundDiv: the quotient with its sign lost
RoundDiv_Unsigned(v, s) == (2 * Abs(v) + Abs(s)) \div (2 * Abs(s))

\* v / spd (solver.py line 156), the quotient rounded to the nearest grid
\* point, halves away from zero.  spd # 0.
RoundDiv(v, s) ==
    LET q == (2 * Abs(v) + Abs(s)) \div (2 * Abs(s))
    IN  IF Sign(v) * Sign(s) < 0 THEN -q ELSE q

\* (a + b) / 2.0 (solver.py lines 108, 119, 201) on the grid
Mid(l, h) == (l + h) \div 2

\* the threshold 1e-14 of newton_speed_assisted (solver.py line 150)
VEps == 2

\* defaults of solve_root (solver.py lines 182-183)
DefaultNewtonMaxIter == 20
DefaultBisectionMaxIter == 80

---------------------------------------------------------------------------
(* The function f: jd -> (value, speed) *)

Vals == -MaxVal .. MaxVal

Spds == -MaxSpd .. MaxSpd

\* fn.kind = "table": any deterministic f, its values drawn when first asked
\* fn.kind = "affine": f(x) = (s * (x - r), s)
\* fn.kind = "cubic": f(x) = (x^3, 3 x^2), test_solver.py lines 31-32
NoFn == [kind |-> "none", s |-> 0, r |-> 0]

---------------------------------------------------------------------------
(* The Panchanga indices (temporal.py) and the residual of the finder.     *)
(* A longitude is a whole number of units, Circle of them to 360 degrees.  *)
(* An index (tithi, nakshatra, yoga) is held in units of which Span make   *)
(* one index step: 12 degrees for the tithi, 360/27 degrees for the other  *)
(* two.  A speed is in units per grid point of time.                       *)

\* 360 degrees (temporal.py line 7)
Circle == 540

\* the periods (finder.py lines 58, 77, 96)
TithiPeriod == 30
StarPeriod == 27

\* 12 degrees: one tithi (temporal.py line 23)
TithiSpan == Circle \div TithiPeriod

\* 360/27 degrees: one nakshatra, one yoga (temporal.py lines 36, 52)
StarSpan == Circle \div StarPeriod

\* temporal.py norm_deg
NormDeg(d) ==
    LET m == d % Circle
    IN  IF m < 0 THEN m + Circle ELSE m

\* temporal.py tithi_continuous: (index, speed), in 1/TithiSpan of a tithi
TithiContinuous(moon_lon, moon_spd, sun_lon, sun_spd) ==
    <<NormDeg(moon_lon - sun_lon), moon_spd - sun_spd>>

\* temporal.py nakshatra_continuous: (index, speed), in 1/StarSpan of a nakshatra
NakshatraContinuous(moon_lon, moon_spd) ==
    <<NormDeg(moon_lon), moon_spd>>

\* temporal.py yoga_continuous: (index, speed), in 1/StarSpan of a yoga
YogaContinuous(moon_lon, moon_spd, sun_lon, sun_spd) ==
    <<NormDeg(moon_lon + sun_lon), moon_spd + sun_spd>>

\* mutant of UnwrapCycle: no value is lifted
UnwrapCycle_NoLift(v, target, period) == v

\* _unwrap_cycle unwinding only beyond the end of the cycle
UnwrapCycle_StrictTarget(v, target, period) ==
    IF target > period /\ 2 * v < period THEN v + period ELSE v

\* finder.py _unwrap_cycle; v, target and period in the same units
UnwrapCycle(v, target, period) ==
    IF target >= period /\ 2 * v < period THEN v + period ELSE v

\* math.floor(curr) + 1.0 (finder.py lines 57, 76, 95), curr in 1/span
FloorPlusOne(curr, span) == ((curr \div span) + 1) * span

\* The ephemeris oracle behind provider.planet_lon_speed: Sun and Moon in
\* uniform motion over the search window, eph = [m0, mu, s0, su]: longitude
\* at jd 0 and speed of the Moon and of the Sun.
MoonLonSpeed(eph, jd) == <<NormDeg(eph.m0 + eph.mu * jd), eph.mu>>

SunLonSpeed(eph, jd) == <<NormDeg(eph.s0 + eph.su * jd), eph.su>>

\* the continuous index of the finder kind at jd: (index, speed)
IndexAt(kind, eph, jd) ==
    LET m == MoonLonSpeed(eph, jd)
        sn == SunLonSpeed(eph, jd)
    IN  IF kind = "tithi" THEN TithiContinuous(m[1], m[2], sn[1], sn[2])
        ELSE IF kind = "nakshatra" THEN NakshatraContinuous(m[1], m[2])
        ELSE YogaContinuous(m[1], m[2], sn[1], sn[2])

\* the residual f of next_tithi_end, next_nakshatra_end, next_yoga_end
\* (finder.py lines 60-65, 79-83, 98-103)
Residual(jd) ==
    LET o == IndexAt(fn.kind, fn.eph, jd)
    IN  <<UnwrapCycle(o[1], fn.target, fn.period) - fn.target, o[2]>>

FinderKinds == {"tithi", "nakshatra", "yoga"}

Formula(jd) ==
    IF fn.kind = "affine" THEN <<fn.s * (jd - fn.r), fn.s>>
    ELSE IF fn.kind = "cubic" THEN <<jd * jd * jd, 3 * jd * jd>>
    ELSE Residual(jd)

\* the pairs (value, speed) a call f(jd) may return in the current state
Outputs(jd) ==
    IF fn.kind = "table"
    THEN { <<v, s>> \in Vals \X Spds :
             /\ (jd \in DOMAIN val => v = val[jd])
             /\ (jd \in DOMAIN spd => s = spd[jd]) }
    ELSE { Formula(jd) }

\* the values f(jd) may have in the current state
ValuesAt(jd) == { o[1] : o \in Outputs(jd) }

\* the value of f(jd) has been observed (the speed is discarded)
SeenValue(jd, v) ==
    /\ val' = IF fn.kind = "table" THEN (jd :> v) @@ val ELSE val
    /\ spd' = spd

\* the value and the speed of f(jd) have been observed
SeenBoth(jd, v, s) ==
    /\ val' = IF fn.kind = "table" THEN (jd :> v) @@ val ELSE val
    /\ spd' = IF fn.kind = "table" THEN (jd :> s) @@ spd ELSE spd

---------------------------------------------------------------------------
(* solve_root *)

NoHist == [scan |-> 0, newton |-> 0, bisect |-> 0, nraise |-> "none"]

---------------------------------------------------------------------------
(* The Calibration (calibration.py, enums.py).  An enum member is written  *)
(* by its name, its .value is looked up in the table of its enum.          *)

ZodiacType == [TROPICAL |-> "Tropical", SIDEREAL |-> "Sidereal"]

PerspectiveType ==
    [TRUE_GEOCENTRIC |-> "TrueGeocentric", HELIOCENTRIC |-> "Heliocentric",
     TOPOCENTRIC |-> "Topocentric"]

NodeMode == [MEAN |-> "Mean", TRUE |-> "True"]

HouseCalculationMode ==
    [SIDEREAL_NATIVE |-> "SiderealNative", TROPICAL_DERIVED |-> "TropicalDerived"]

HouseSystem ==
    [PLACIDUS |-> "P", WHOLE_SIGN |-> "W", EQUAL |-> "E", PORPHYRY |-> "O",
     KOCH |-> "K", CAMPANUS |-> "C", REGIOMONTANUS |-> "R", EQUAL_ASC |-> "A"]

SunriseDisc == [DISC_CENTER |-> "Center", DISC_EDGE |-> "Edge"]

AyanamsaMode ==
    [LAHIRI_CLASSIC |-> "LahiriClassic", TRUE_CITRA |-> "TrueCitra",
     KRISHNAMURTI |-> "KP", RAMAN |-> "Raman", USER_DEFINED |-> "UserDefined"]

RiseSetStyle == [PYJHORA_DRiK |-> "PYJHORA_DRiK", DISC_POLICY |-> "DISC_POLICY"]

\* the member of an enum that has the value v
MemberOf(enum, v) == CHOOSE m \in DOMAIN enum : enum[m] = v

\* the defaults of the sub-records and of CalibrationConfig; a pressure, a
\* temperature, an altitude, t0 and ayan_t0 are floats, written as their
\* offset from the default in whole units
DefaultAtmosphere == [pressure_mbar |-> 0, temperature_c |-> 0]

DefaultSunrise ==
    [style |-> "PYJHORA_DRiK", disc |-> "DISC_EDGE", use_refraction |-> TRUE,
     atmosphere |-> DefaultAtmosphere]

DefaultAyanamsa == [mode |-> "TRUE_CITRA", t0 |-> 0, ayan_t0 |-> 0]

DefaultTopo == [enabled |-> FALSE, altitude_m |-> 0]

DefaultCalibration ==
    [zodiac_type |-> "SIDEREAL", perspective |-> "TOPOCENTRIC",
     ayanamsa |-> DefaultAyanamsa, nodes |-> "TRUE",
     houses |-> "TROPICAL_DERIVED", house_system |-> "PLACIDUS",
     sunrise |-> DefaultSunrise, topo |-> DefaultTopo,
     use_microseconds |-> TRUE, use_speed |-> TRUE, use_truepos |-> TRUE,
     reset_topo_on_exit |-> TRUE]

\* signature() leaving out the altitude of the site
Signature_NoAltitude(c) ==
    <<ZodiacType[c.zodiac_type], PerspectiveType[c.perspective],
      AyanamsaMode[c.ayanamsa.mode], c.ayanamsa.t0, c.ayanamsa.ayan_t0,
      NodeMode[c.nodes], HouseCalculationMode[c.houses],
      HouseSystem[c.house_system],
      RiseSetStyle[c.sunrise.style], SunriseDisc[c.sunrise.disc],
      c.sunrise.use_refraction,
      c.sunrise.atmosphere.pressure_mbar, c.sunrise.atmosphere.temperature_c,
      c.topo.enabled,
      c.use_microseconds, c.use_speed, c.use_truepos, c.reset_topo_on_exit>>

\* CalibrationConfig.signature (calibration.py lines 73-93)
Signature(c) ==
    <<ZodiacType[c.zodiac_type], PerspectiveType[c.perspective],
      AyanamsaMode[c.ayanamsa.mode], c.ayanamsa.t0, c.ayanamsa.ayan_t0,
      NodeMode[c.nodes], HouseCalculationMode[c.houses],
      HouseSystem[c.house_system],
      RiseSetStyle[c.sunrise.style], SunriseDisc[c.sunrise.disc],
      c.sunrise.use_refraction,
      c.sunrise.atmosphere.pressure_mbar, c.sunrise.atmosphere.temperature_c,
      c.topo.enabled, c.topo.altitude_m,
      c.use_microseconds, c.use_speed, c.use_truepos, c.reset_topo_on_exit>>

\* the leaves of a CalibrationConfig: the record that holds the field
\* ("top" is the instance itself) and the name of the field
Leaves ==
    ({"top"} \X {"zodiac_type", "perspective", "nodes", "houses",
                 "house_system", "use_microseconds", "use_speed",
                 "use_truepos", "reset_topo_on_exit"})
      \cup ({"ayanamsa"} \X {"mode", "t0", "ayan_t0"})
      \cup ({"sunrise"} \X {"style", "disc", "use_refraction"})
      \cup ({"atmosphere"} \X {"pressure_mbar", "temperature_c"})
      \cup ({"topo"} \X {"enabled", "altitude_m"})

\* the floats of the model: offsets from the default
Offsets == 0 .. MaxOffset

\* the values a field may be given, by its declared type
FieldType ==
    [zodiac_type |-> DOMAIN ZodiacType, perspective |-> DOMAIN PerspectiveType,
     nodes |-> DOMAIN NodeMode, houses |-> DOMAIN HouseCalculationMode,
     house_system |-> DOMAIN HouseSystem,
     use_microseconds |-> BOOLEAN, use_speed |-> BOOLEAN,
     use_truepos |-> BOOLEAN, reset_topo_on_exit |-> BOOLEAN,
     mode |-> DOMAIN AyanamsaMode, t0 |-> Offsets, ayan_t0 |-> Offsets,
     style |-> DOMAIN RiseSetStyle, disc |-> DOMAIN SunriseDisc,
     use_refraction |-> BOOLEAN,
     pressure_mbar |-> Offsets, temperature_c |-> Offsets,
     enabled |-> BOOLEAN, altitude_m |-> Offsets]

\* the nested fields of a CalibrationConfig, in the order the constructor
\* fills them; an instance holds the address of each sub-record, and a
\* RiseSetPolicy the address of its AtmosphericConfig
Parts == {"ayanamsa", "sunrise", "topo"}

\* Field(default_factory=...) (calibration.py lines 32, 56, 62, 63): the
\* factory is called for every instance and returns a new object, which
\* gets the next free address of the heap h
DefaultFactory(h) == Len(h) + 1

\* the heap h with the object v at address a, which is an address of h or
\* the next free one
Put(h, a, v) == IF a = Len(h) + 1 THEN Append(h, v) ELSE h

\* the instance i with its sub-records in place of their addresses
Value(h, c) ==
    [c EXCEPT !.ayanamsa = h[c.ayanamsa],
              !.sunrise = [h[c.sunrise] EXCEPT !.atmosphere = h[@]],
              !.topo = h[c.topo]]

\* the address of the record of instance c that holds a leaf
AddrOf(h, c, obj) ==
    CASE obj = "ayanamsa" -> c.ayanamsa
      [] obj = "sunrise" -> c.sunrise
      [] obj = "topo" -> c.topo
      [] obj = "atmosphere" -> h[c.sunrise].atmosphere

\* the addresses of the sub-records of instance c
Refs(h, c) == { AddrOf(h, c, o) : o \in Parts \cup {"atmosphere"} }

CalibInit ==
    /\ objs = <<>>
    /\ insts = <<>>
    /\ edits = 0
    /\ sigOut = None

\* RiseSetPolicy() by its default factory, with its AtmosphericConfig
\* (calibration.py lines 28-32): the heap and the address of the policy
NewSunrise(h) ==
    LET a == DefaultFactory(h)
        h1 == Put(h, a, DefaultAtmosphere)
        s == DefaultFactory(h1)
    IN  [heap |-> Put(h1, s, [DefaultSunrise EXCEPT !.atmosphere = a]),
         at |-> s]

\* CalibrationConfig(): every nested field from its default factory
\* (calibration.py lines 47-71)
NewCalibration ==
    /\ sigOut = None
    /\ Len(insts) < MaxInstances
    /\ LET s == NewSunrise(objs)
           a == DefaultFactory(s.heap)
           h3 == Put(s.heap, a, DefaultAyanamsa)
           t == DefaultFactory(h3)
       IN  /\ objs' = Put(h3, t, DefaultTopo)
           /\ insts' = Append(insts, [DefaultCalibration EXCEPT
                          !.ayanamsa = a, !.sunrise = s.at, !.topo = t])
    /\ sigOut' = None
    /\ UNCHANGED edits
    /\ UNCHANGED <<svars, tvars, pvars, avars>>

\* CalibrationConfig(part=other.part): the constructor is handed a nested
\* record of another instance.  Whether the new instance holds that record
\* itself or a shallow copy of it is the validation policy of the pydantic
\* in use; the other nested fields come from their default factories.
\* The record handed over is one of the newest instance.
NewCalibrationWith ==
    /\ sigOut = None
    /\ Len(insts) < MaxInstances
    /\ \E i \in DOMAIN insts \cap {Len(insts)}, part \in Parts,
            held \in BOOLEAN :
         LET given == insts[i][part]
             h0 == IF held THEN objs ELSE Append(objs, objs[given])
             g == IF held THEN given ELSE Len(h0)
             s == IF part = "sunrise" THEN [heap |-> h0, at |-> g]
                  ELSE NewSunrise(h0)
             a == IF part = "ayanamsa" THEN g ELSE DefaultFactory(s.heap)
             h3 == Put(s.heap, a, DefaultAyanamsa)
             t == IF part = "topo" THEN g ELSE DefaultFactory(h3)
         IN  /\ objs' = Put(h3, t, DefaultTopo)
             /\ insts' = Append(insts, [DefaultCalibration EXCEPT
                            !.ayanamsa = a, !.sunrise = s.at, !.topo = t])
    /\ sigOut' = None
    /\ UNCHANGED edits
    /\ UNCHANGED <<svars, tvars, pvars, avars>>

\* cfg.copy() / cfg.model_copy() of the base class (calibration.py line
\* 47): a shallow copy, the new instance holds the fields of the old one
\* (the newest instance is the one copied)
CopyCalibration ==
    /\ sigOut = None
    /\ Len(insts) < MaxInstances
    /\ \E i \in DOMAIN insts \cap {Len(insts)} :
         insts' = Append(insts, insts[i])
    /\ sigOut' = None
    /\ UNCHANGED <<objs, edits>>
    /\ UNCHANGED <<svars, tvars, pvars, avars>>

\* cfg.field = v and cfg.part.field = v (test_traps.py lines 19-20): an
\* attribute assignment on instance i or on one of its nested records
SetLeaf ==
    /\ sigOut = None
    /\ edits < MaxEdits
    /\ \E i \in DOMAIN insts, leaf \in Leaves :
         \E v \in FieldType[leaf[2]] :
           IF leaf[1] = "top"
           THEN /\ insts[i][leaf[2]] # v
                /\ insts' = [insts EXCEPT ![i][leaf[2]] = v]
                /\ objs' = objs
           ELSE LET a == AddrOf(objs, insts[i], leaf[1])
                IN  /\ objs[a][leaf[2]] # v
                    /\ objs' = [objs EXCEPT ![a][leaf[2]] = v]
                    /\ insts' = insts
    /\ edits' = edits + 1
    /\ sigOut' = None
    /\ UNCHANGED <<svars, tvars, pvars, avars>>

\* cfg.signature() (calibration.py lines 73-93); the model follows the
\* instances up to one call of it
CallSignature ==
    /\ sigOut = None
    /\ \E i \in DOMAIN insts :
         sigOut' = [inst |-> i, sig |-> Signature(Value(objs, insts[i]))]
    /\ UNCHANGED <<objs, insts, edits>>
    /\ UNCHANGED <<svars, tvars, pvars, avars>>

CalibNext ==
    \/ NewCalibration
    \/ NewCalibrationWith
    \/ CopyCalibration
    \/ SetLeaf
    \/ CallSignature

---------------------------------------------------------------------------
(* Angles (angles.py, temporal.py).  An angle is a float, written as the   *)
(* whole number of tenths of a degree it holds.  A float has Precision     *)
(* significant bits: the whole numbers below 2^Precision are floats, above *)
(* them every second, every fourth ... number.  An operation returns the   *)
(* float nearest to its exact result, a tie going to the even significand. *)

Precision == 9

\* the distance of neighbouring floats at the magnitude z >= 0
RECURSIVE Ulp(_)
Ulp(z) == IF z < 2 ^ Precision THEN 1 ELSE 2 * Ulp(z \div 2)

\* z >= 0 rounded to the nearest multiple of u, a tie to the even multiple
RoundEven(z, u) ==
    LET q == z \div u
        r == z % u
    IN  IF 2 * r < u THEN q * u
        ELSE IF 2 * r > u THEN (q + 1) * u
        ELSE IF q % 2 = 0 THEN q * u ELSE (q + 1) * u

\* the float an operation with the exact result z returns
Fl(z) == IF z < 0 THEN -RoundEven(-z, Ulp(-z)) ELSE RoundEven(z, Ulp(z))

IsFloat(z) == Fl(z) = z

\* C fmod(a, p), p > 0: exact, with the sign of a
FMod(a, p) == IF a >= 0 THEN a % p ELSE -((-a) % p)

\* a % p of Python floats, p > 0: fmod(a, p), and p added to it when it is
\* negative
PyMod(a, p) ==
    LET r == FMod(a, p)
    IN  IF r < 0 THEN Fl(r + p) ELSE r

\* a % p has been computed without rounding
PyModExact(a, p) == FMod(a, p) >= 0 \/ IsFloat(FMod(a, p) + p)

\* 360.0
Turn == 3600

\* period / 2.0; the periods of the model are even
Half(p) == p \div 2

\* normalize_angle(angle, start=s, period=p) (angles.py lines 11-16)
NormalizeAngle(a, s, p) == Fl(PyMod(Fl(a - s), p) + s)

\* norm_deg(d) (temporal.py lines 6-8) on floats
NormDegFl(d) ==
    LET m == PyMod(d, Turn)
    IN  IF m < 0 THEN Fl(m + Turn) ELSE m

\* unwrap_relative shifting the difference into [0, period)
AnglesUnwrapRelative_NoHalf(v, t, p) == Fl(t + PyMod(Fl(v - t), p))

\* unwrap_relative(val, target, period=p) (angles.py lines 38-48)
AnglesUnwrapRelative(v, t, p) ==
    LET half == Half(p)
        diff == Fl(PyMod(Fl(Fl(v - t) + half), p) - half)
    IN  Fl(t + diff)

\* unwrap_relative(val, target, period) (temporal.py lines 59-73)
TemporalUnwrapRelative(v, t, p) ==
    LET diff == Fl(PyMod(Fl(Fl(v - t) + Half(p)), p) - Half(p))
    IN  Fl(t + diff)

\* diff of unwrap_relative (angles.py line 47)
UnwrapDiff(v, t, p) == Fl(PyMod(Fl(Fl(v - t) + Half(p)), p) - Half(p))

\* no operation of unwrap_relative(v, t, p) has rounded
UnwrapExact(v, t, p) ==
    /\ IsFloat(v - t)
    /\ IsFloat((v - t) + Half(p))
    /\ PyModExact((v - t) + Half(p), p)
    /\ IsFloat(PyMod((v - t) + Half(p), p) - Half(p))
    /\ IsFloat(t + UnwrapDiff(v, t, p))

\* unwrap_angles stepping from the sample before instead of from the
\* unwrapped value before
RECURSIVE UnwrapAngles_FromSample(_, _)
UnwrapAngles_FromSample(seq, p) ==
    IF Len(seq) <= 1 THEN seq
    ELSE LET n == Len(seq)
             out == UnwrapAngles_FromSample(SubSeq(seq, 1, n - 1), p)
             prev == seq[n - 1]
             diff == Fl(PyMod(Fl(Fl(seq[n] - prev) + Half(p)), p) - Half(p))
         IN  Append(out, Fl(prev + diff))

\* unwrap_angles(angles, period=p) (angles.py lines 19-35)
RECURSIVE UnwrapAngles(_, _)
UnwrapAngles(seq, p) ==
    IF Len(seq) <= 1 THEN seq
    ELSE LET n == Len(seq)
             out == UnwrapAngles(SubSeq(seq, 1, n - 1), p)
             prev == out[n - 1]
             diff == Fl(PyMod(Fl(Fl(seq[n] - prev) + Half(p)), p) - Half(p))
         IN  Append(out, Fl(prev + diff))

\* no operation of unwrap_angles(seq, p) has rounded
RECURSIVE UnwrapAnglesExact(_, _)
UnwrapAnglesExact(seq, p) ==
    Len(seq) <= 1 \/
    LET n == Len(seq)
        out == UnwrapAngles(SubSeq(seq, 1, n - 1), p)
    IN  /\ UnwrapAnglesExact(SubSeq(seq, 1, n - 1), p)
        /\ UnwrapExact(seq[n], out[n - 1], p)

\* max(ext) and min(ext) of a non-empty list
RECURSIVE SeqMax(_)
SeqMax(q) ==
    IF Len(q) = 1 THEN q[1]
    ELSE LET m == SeqMax(Tail(q)) IN IF q[1] > m THEN q[1] ELSE m

RECURSIVE SeqMin(_)
SeqMin(q) ==
    IF Len(q) = 1 THEN q[1]
    ELSE LET m == SeqMin(Tail(q)) IN IF q[1] < m THEN q[1] ELSE m

\* [a + float(period) for a in base] (angles.py line 60)
Shifted(base, p) == [k \in DOMAIN base |-> Fl(base[k] + p)]

\* the while condition of extend_angle_range (angles.py line 59)
Short(e) == Fl(SeqMax(e.out) - SeqMin(e.out)) < e.span

\* the inputs of the helpers
Periods == {270, 300, 600, Turn}

\* the angles within MaxTurns periods of 0
Angles(p) == { a \in -(MaxTurns * p) .. MaxTurns * p : IsFloat(a) }

\* the targets: whole degrees
Targets == { t \in 0 .. MaxTarget : t % 10 = 0 }

\* the increments of a sequence of period p: small ones and those next to
\* the ends of [-p/2, p/2)
Increments(p) ==
    (-MaxIncr .. MaxIncr)
      \cup {-Half(p), 1 - Half(p), Half(p) - 2, Half(p) - 1}

\* where a sequence of period p starts: next to 0, to p/2 and to p
FirstValues(p) ==
    { t \in 0 .. p - 1 :
        \/ t <= MaxIncr
        \/ Abs(t - Half(p)) <= MaxIncr
        \/ t >= p - 1 - MaxIncr }

\* the sequence that starts at t0 and goes on by the increments d
RECURSIVE Walk(_, _)
Walk(t0, d) ==
    IF d = <<>> THEN <<t0>>
    ELSE LET w == Walk(t0, SubSeq(d, 1, Len(d) - 1))
         IN  Append(w, w[Len(w)] + d[Len(d)])

BaseAngles == { a \in 0 .. MaxTarget : a % 100 = 0 }

AngleInit ==
    /\ acall = None
    /\ ext = None

\* no angle helper has been called: the model follows one call
NoAngleCall == acall = None /\ ext = None

\* a call of normalize_angle
CallNormalizeAngle ==
    /\ NoAngleCall
    /\ \E p \in Periods :
         \E a \in Angles(p), s \in {0, -Half(p), 100} :
           acall' = [op |-> "normalize_angle", a |-> a, s |-> s, p |-> p,
                     out |-> NormalizeAngle(a, s, p)]
    /\ UNCHANGED ext
    /\ UNCHANGED <<svars, tvars, pvars, cvars>>

\* a call of norm_deg
CallNormDeg ==
    /\ NoAngleCall
    /\ \E d \in Angles(Turn) :
         acall' = [op |-> "norm_deg", a |-> d, out |-> NormDegFl(d)]
    /\ UNCHANGED ext
    /\ UNCHANGED <<svars, tvars, pvars, cvars>>

\* a call of unwrap_relative, of angles.py and of temporal.py
CallUnwrapRelative ==
    /\ NoAngleCall
    /\ \E p \in Periods :
        \E v \in Angles(p), t \in Targets :
         acall' = [op |-> "unwrap_relative", v |-> v, t |-> t, p |-> p,
                   out |-> AnglesUnwrapRelative(v, t, p),
                   temporal |-> TemporalUnwrapRelative(v, t, p)]
    /\ UNCHANGED ext
    /\ UNCHANGED <<svars, tvars, pvars, cvars>>

\* a call of unwrap_angles on the samples t_i mod p of a sequence whose
\* increments lie in [-p/2, p/2)
CallUnwrapAngles ==
    /\ NoAngleCall
    /\ \E p \in Periods, n \in 1 .. MaxSeq :
         \E t0 \in FirstValues(p), d \in [1 .. n - 1 -> Increments(p)] :
           LET t == Walk(t0, d)
               seq == [k \in 1 .. n |-> t[k] % p]
           IN  /\ \A k \in 1 .. n : IsFloat(seq[k])
               /\ acall' = [op |-> "unwrap_angles", t |-> t, seq |-> seq,
                             p |-> p, out |-> UnwrapAngles(seq, p)]
    /\ UNCHANGED ext
    /\ UNCHANGED <<svars, tvars, pvars, cvars>>

\* extend_angle_range(angles, span, period) up to its loop (angles.py
\* lines 55-58); an empty input returns at once
ExtendStart ==
    /\ NoAngleCall
    /\ \E n \in 0 .. MaxBase, p \in Periods, k \in 0 .. MaxSpanTurns :
         \E base \in [1 .. n -> BaseAngles] :
           ext' = [pc |-> IF n = 0 THEN "done" ELSE "loop",
                   base |-> base, span |-> k * p, period |-> p,
                   out |-> base, passes |-> 0]
    /\ UNCHANGED acall
    /\ UNCHANGED <<svars, tvars, pvars, cvars>>

\* one pass of the loop (angles.py lines 59-60)
ExtendPass ==
    /\ ext # None
    /\ ext.pc = "loop"
    /\ Short(ext)
    /\ ext.passes < MaxPasses
    /\ ext' = [ext EXCEPT !.out = @ \o Shifted(ext.base, ext.period),
                          !.passes = @ + 1]
    /\ UNCHANGED acall
    /\ UNCHANGED <<svars, tvars, pvars, cvars>>

\* the loop ends and the list is returned (angles.py lines 59, 61)
ExtendReturn ==
    /\ ext # None
    /\ ext.pc = "loop"
    /\ ~Short(ext)
    /\ ext' = [ext EXCEPT !.pc = "done"]
    /\ UNCHANGED acall
    /\ UNCHANGED <<svars, tvars, pvars, cvars>>

\* the periods of the finder in tenths of an index step: 30.0 and 27.0
\* (finder.py lines 58, 77, 96)
CyclePeriods == {10 * TithiPeriod, 10 * StarPeriod}

\* _unwrap_cycle(val, target, period) and unwrap_relative(val, target,
\* period) of temporal.py called on the same arguments, in tenths: an index
\* value of the cycle and a whole target up to the period
CallUnwrapCycle ==
    /\ NoAngleCall
    /\ \E p \in CyclePeriods :
         \E v \in 0 .. p - 1, t \in { 10 * k : k \in 0 .. p \div 10 } :
           acall' = [op |-> "unwrap_cycle", v |-> v, t |-> t, p |-> p,
                     out |-> UnwrapCycle(v, t, p),
                     temporal |-> TemporalUnwrapRelative(v, t, p)]
    /\ UNCHANGED ext
    /\ UNCHANGED <<svars, tvars, pvars, cvars>>

UnwrapNext == CallUnwrapCycle

AngleNext ==
    \/ CallNormalizeAngle
    \/ CallNormDeg
    \/ CallUnwrapRelative
    \/ CallUnwrapAngles
    \/ ExtendStart
    \/ ExtendPass
    \/ ExtendReturn

---------------------------------------------------------------------------
(* Inverse Lagrange interpolation (interpolation.py).  The arithmetic is   *)
(* exact: a y is a whole number of 1/YScale, an x a whole number, eps is   *)
(* 1/EpsInv, and a result is a fraction num/den in lowest terms.           *)

\* the grid of the y values: YScale steps to one unit
YScale == 4

\* eps (interpolation.py line 14) is 1/EpsInv
EpsInv == 3

\* abs(d) <= eps for a difference d of two y (interpolation.py lines 54, 60)
WithinEps(d) == Abs(d) * EpsInv <= YScale

RECURSIVE Gcd(_, _)
Gcd(m, n) == IF n = 0 THEN m ELSE Gcd(n, m % n)

\* the fraction n/d, d # 0, in lowest terms with a positive denominator
Fraction(n, d) ==
    LET g == Gcd(Abs(n), Abs(d))
        s == IF d < 0 THEN -1 ELSE 1
    IN  [num |-> s * (n \div g), den |-> s * (d \div g)]

\* sorted(idx, key=lambda i: abs(ys[i] - y_target)) (interpolation.py
\* line 45): the sort is stable, equal keys keep the order of the indices
RECURSIVE SortedByDistance(_, _, _)
SortedByDistance(idx, ys, yt) ==
    IF idx = {} THEN <<>>
    ELSE LET i == CHOOSE i \in idx : \A j \in idx :
                      \/ Abs(ys[i] - yt) < Abs(ys[j] - yt)
                      \/ Abs(ys[i] - yt) = Abs(ys[j] - yt) /\ i <= j
         IN  <<i>> \o SortedByDistance(idx \ {i}, ys, yt)

\* the kept sort of the mutant: the samples in their given order
KeptIndices_Unsorted(ys, yt, max_points) ==
    LET n == Len(ys)
        k == IF max_points > 2 THEN max_points ELSE 2
    IN  IF n > k THEN [i \in 1 .. k |-> i] ELSE [i \in 1 .. n |-> i]

\* the indices of the samples kept, in the order the function holds them
\* (interpolation.py lines 43-48)
KeptIndices(ys, yt, max_points) ==
    LET n == Len(ys)
        k == IF max_points > 2 THEN max_points ELSE 2
    IN  IF n > k THEN SubSeq(SortedByDistance(1 .. n, ys, yt), 1, k)
        ELSE [i \in 1 .. n |-> i]

RECURSIVE Product(_, _)
Product(f, S) ==
    IF S = {} THEN 1
    ELSE LET i == CHOOSE i \in S : TRUE
         IN  f[i] * Product(f, S \ {i})

RECURSIVE Sum(_, _)
Sum(f, S) ==
    IF S = {} THEN 0
    ELSE LET i == CHOOSE i \in S : TRUE
         IN  f[i] + Sum(f, S \ {i})

\* denom of sample i (interpolation.py lines 66-71), in 1/YScale^(n-1)
WeightDenom(ys, i) ==
    Product([j \in DOMAIN ys |-> IF j = i THEN 1 ELSE ys[i] - ys[j]],
            DOMAIN ys)

\* the term of sample i without its weight
TermDenom_NoWeight(ys, yt, i) == yt - ys[i]

\* 1 / t of sample i (interpolation.py lines 72, 78): denom * (yt - yi), in
\* 1/YScale^n
TermDenom(ys, yt, i) == WeightDenom(ys, i) * (yt - ys[i])

\* num and den (interpolation.py lines 75-80) over the common denominator
\* of the terms, the product of all TermDenom: its numerators
NumOver(xs, ys, yt) ==
    Sum([i \in DOMAIN ys |->
           xs[i] * Product([j \in DOMAIN ys |->
                              IF j = i THEN 1 ELSE TermDenom(ys, yt, j)],
                           DOMAIN ys)],
        DOMAIN ys)

DenOver(ys, yt) ==
    Sum([i \in DOMAIN ys |->
           Product([j \in DOMAIN ys |->
                      IF j = i THEN 1 ELSE TermDenom(ys, yt, j)],
                   DOMAIN ys)],
        DOMAIN ys)

\* abs(den) <= eps (interpolation.py line 82): den is DenOver times
\* YScale^n over the product of all TermDenom
DenWithinEps(ys, yt) ==
    Abs(DenOver(ys, yt)) * (YScale ^ Len(ys)) * EpsInv
      <= Abs(Product([i \in DOMAIN ys |-> TermDenom(ys, yt, i)], DOMAIN ys))

Raises(exception, line) ==
    [raises |-> exception, line |-> line, num |-> 0, den |-> 1]

Returns(line, n, d) ==
    [raises |-> "none", line |-> line] @@ Fraction(n, d)

\* inverse_lagrange(x_list, y_list, y_target, max_points=max_points)
\* (interpolation.py lines 35-85): the exception raised or the value
\* returned, with the line that raised or returned
InverseLagrange(x_list, y_list, yt, max_points) ==
    IF Len(x_list) # Len(y_list) THEN Raises("ValueError", 38)
    ELSE IF Len(x_list) < 2 THEN Raises("ValueError", 41)
    ELSE
      LET idx == KeptIndices(y_list, yt, max_points)
          xs == [i \in DOMAIN idx |-> x_list[idx[i]]]
          ys == [i \in DOMAIN idx |-> y_list[idx[i]]]
          hits == { i \in DOMAIN ys : WithinEps(yt - ys[i]) }
      IN  IF hits # {}
          THEN Returns(55, xs[CHOOSE i \in hits : \A j \in hits : i <= j], 1)
          ELSE IF \E i, j \in DOMAIN ys : i < j /\ WithinEps(ys[i] - ys[j])
          THEN Raises("ValueError", 61)
          ELSE IF \E i \in DOMAIN ys : WeightDenom(ys, i) = 0
          THEN Raises("ZeroDivisionError", 72)
          ELSE IF DenWithinEps(ys, yt) THEN Raises("ZeroDivisionError", 83)
          ELSE Returns(85, NumOver(xs, ys, yt), DenOver(ys, yt))

\* the inputs of inverse_lagrange: the y of the samples, the targets, the
\* x of n samples (offsets going up or down, or unevenly spaced, or one
\* more than there are y) and max_points; at most three samples are kept,
\* which keeps the products of the exact arithmetic small
YValues == 0 .. MaxY

YTargets == 0 .. MaxYTarget

Ascending(n) == [i \in 1 .. n |-> i - 1]

Descending(n) == [i \in 1 .. n |-> n - i]

Uneven(n) == [i \in 1 .. n |-> (i * (i - 1)) \div 2]

XLists(n) == {Ascending(n), Descending(n), Uneven(n), Ascending(n + 1)}

PointCounts == {1, 2, 3}

\* a call of inverse_lagrange
CallInverseLagrange ==
    /\ NoAngleCall
    /\ \E n \in 0 .. MaxSamples, yt \in YTargets, mp \in PointCounts :
         \E y_list \in [1 .. n -> YValues], x_list \in XLists(n) :
           acall' = [op |-> "inverse_lagrange", xs |-> x_list, ys |-> y_list,
                     yt |-> yt, max_points |-> mp,
                     out |-> InverseLagrange(x_list, y_list, yt, mp)]
    /\ UNCHANGED ext
    /\ UNCHANGED <<svars, tvars, pvars, cvars>>

InterpNext == CallInverseLagrange

---------------------------------------------------------------------------
(* The session context (manager.py) *)

Threads == 1 .. NumThreads

NoThread == 0

\* the CalibrationConfig fields SwissContext reads (calibration.py lines
\* 53-71): zodiac_type, ayanamsa.mode, perspective = TOPOCENTRIC with
\* topo.enabled, reset_topo_on_exit
Configs ==
    { c \in [zodiac : {"Tropical", "Sidereal"},
             ayan : {"TrueCitra", "Raman", "UserDefined"},
             topo : BOOLEAN,
             reset : BOOLEAN] :
        c.zodiac = "Tropical" => c.ayan = "TrueCitra" }

\* the site (lon, lat, alt_m) of the sessions of thread t; 0 is (0.0, 0.0, 0.0)
Site(t) == t

\* the engine as the process starts
EngineInit == [path |-> "unset", sid |-> "unset", topo |-> 0]

\* getattr(swe, f"SIDM_{ay.mode.value}", swe.SIDM_LAHIRI) (manager.py line
\* 53): swisseph names its modes SIDM_LAHIRI, SIDM_TRUE_CITRA, SIDM_RAMAN, ...
SidModeOf(ayan) ==
    IF ayan = "UserDefined" THEN "SIDM_USER"
    ELSE IF ayan \in {"LAHIRI", "TRUE_CITRA", "RAMAN", "KRISHNAMURTI"}
         THEN "SIDM_" \o ayan
    ELSE "SIDM_LAHIRI"

\* the CalibrationConfig of a session: the defaults but for the fields
\* that Configs varies
CalibrationOf(c) ==
    [DefaultCalibration EXCEPT
       !.zodiac_type = MemberOf(ZodiacType, c.zodiac),
       !.ayanamsa.mode = MemberOf(AyanamsaMode, c.ayan),
       !.topo.enabled = c.topo,
       !.reset_topo_on_exit = c.reset]

\* a cache that holds nothing (provider.py line 37, default_factory=dict)
EmptyCache == <<>>

\* a Provider that starts with the cache of the Provider of the session
\* that encloses its own
NewProvider_SharedCache(c, t, id) ==
    [id |-> id, config |-> c, site |-> Site(t),
     sig |-> Signature(CalibrationOf(c)),
     cache |-> IF stack[t] = <<>> THEN EmptyCache
               ELSE stack[t][Len(stack[t])].provider.cache]

\* EphemerisProvider(config, engine, lon, lat, alt_m) with __post_init__
\* (provider.py lines 25-41); id tells the Provider objects apart
NewProvider(c, t, id) ==
    [id |-> id, config |-> c, site |-> Site(t),
     sig |-> Signature(CalibrationOf(c)), cache |-> EmptyCache]

\* no thread is in a session, the lock is free
ThreadsInit ==
    /\ lockOwner = NoThread
    /\ lockCount = 0
    /\ tpc = [t \in Threads |-> "run"]
    /\ pend = [t \in Threads |-> None]
    /\ stack = [t \in Threads |-> <<>>]
    /\ exc = [t \in Threads |-> FALSE]
    /\ started = [t \in Threads |-> 0]
    /\ kept = [t \in Threads |-> FALSE]

SessionInit ==
    /\ ThreadsInit
    /\ engine = EngineInit

\* thread t begins `with ctx:` and __enter__ is called.  ctx is a new
\* SwissContext(config, ...), whose _topo_used is False (manager.py line
\* 42), or one the thread has exited before and kept, holding the config c
\* by now (self.config and its fields can be assigned to) and the
\* _topo_used its earlier session left: nothing sets it back to False
BeginUpTo(t, n) ==
    /\ tpc[t] = "run"
    /\ ~exc[t]
    /\ started[t] < n
    /\ \E c \in Configs, u \in {FALSE, kept[t]} :
         pend' = [pend EXCEPT ![t] = [config |-> c, topo_used |-> u]]
    /\ tpc' = [tpc EXCEPT ![t] = "acquire"]
    /\ started' = [started EXCEPT ![t] = @ + 1]
    /\ UNCHANGED <<lockOwner, lockCount, stack, exc, kept, engine>>
    /\ UNCHANGED <<svars, xvars>>

BeginWith(t) == BeginUpTo(t, MaxEnters)

\* an acquire that does not wait for the lock to be free
Acquire_NoWait(t) ==
    /\ tpc[t] = "acquire"
    /\ lockOwner' = t
    /\ lockCount' = lockCount + 1
    /\ tpc' = [tpc EXCEPT ![t] = "install"]
    /\ UNCHANGED <<pend, stack, exc, started, kept, engine>>
    /\ UNCHANGED <<svars, xvars>>

\* self._lock.acquire() (manager.py line 45): the lock is free or held by
\* the calling thread (threading.RLock, line 10)
Acquire(t) ==
    /\ tpc[t] = "acquire"
    /\ lockOwner \in {NoThread, t}
    /\ lockOwner' = t
    /\ lockCount' = lockCount + 1
    /\ tpc' = [tpc EXCEPT ![t] = "install"]
    /\ UNCHANGED <<pend, stack, exc, started, kept, engine>>
    /\ UNCHANGED <<svars, xvars>>

\* the engine calls of __enter__ in order (manager.py lines 46-58)
InstallSteps(c) ==
    <<"path">> \o (IF c.zodiac = "Sidereal" THEN <<"sid">> ELSE <<>>)
               \o (IF c.topo THEN <<"topo">> ELSE <<>>)

\* the engine after the call `step` of the entry of thread t with config c
Installed(e, step, c, t) ==
    IF step = "path" THEN [e EXCEPT !.path = "set"]
    ELSE IF step = "sid" THEN [e EXCEPT !.sid = SidModeOf(c.ayan)]
    ELSE [e EXCEPT !.topo = Site(t)]

\* the engine after the first n calls of the entry
RECURSIVE InstalledUpTo(_, _, _, _)
InstalledUpTo(e, n, c, t) ==
    IF n = 0 THEN e
    ELSE Installed(InstalledUpTo(e, n - 1, c, t), InstallSteps(c)[n], c, t)

\* the rest of __enter__ (manager.py lines 46-62) runs to its return: the
\* session is entered
EnterReturns(t) ==
    /\ tpc[t] = "install"
    /\ LET c == pend[t].config
           n == Len(InstallSteps(c))
       IN  /\ engine' = InstalledUpTo(engine, n, c, t)
           /\ stack' = [stack EXCEPT ![t] =
                          Append(@, [config |-> c, pushed |-> c.topo,
                                     topo_used |-> pend[t].topo_used \/ c.topo,
                                     provider |-> NewProvider(c, t, <<t, started[t]>>)])]
    /\ tpc' = [tpc EXCEPT ![t] = "run"]
    /\ pend' = [pend EXCEPT ![t] = None]
    /\ UNCHANGED <<lockOwner, lockCount, exc, started, kept>>
    /\ UNCHANGED <<svars, xvars>>

\* an engine call of __enter__ raises (manager.py lines 46-57): the
\* exception leaves __enter__, the body does not run and __exit__ is not
\* called for this SwissContext
EnterRaises(t) ==
    /\ tpc[t] = "install"
    /\ LET c == pend[t].config
       IN  \E n \in 1 .. Len(InstallSteps(c)) :
             engine' = InstalledUpTo(engine, n - 1, c, t)
    /\ tpc' = [tpc EXCEPT ![t] = "run"]
    /\ pend' = [pend EXCEPT ![t] = None]
    /\ exc' = [exc EXCEPT ![t] = TRUE]
    /\ UNCHANGED <<lockOwner, lockCount, stack, started, kept>>
    /\ UNCHANGED <<svars, xvars>>

\* the body of the innermost with-statement of thread t raises
BodyRaises(t) ==
    /\ tpc[t] = "run"
    /\ ~exc[t]
    /\ stack[t] # <<>>
    /\ exc' = [exc EXCEPT ![t] = TRUE]
    /\ UNCHANGED <<lockOwner, lockCount, tpc, pend, stack, started, kept, engine>>
    /\ UNCHANGED <<svars, xvars>>

\* self._lock.release() (manager.py line 69)
Released(t) ==
    /\ lockCount' = lockCount - 1
    /\ lockOwner' = IF lockCount = 1 THEN NoThread ELSE lockOwner

\* __exit__ of the innermost SwissContext of thread t (manager.py lines
\* 64-69), the body having ended or raised; the reset of the topocentric
\* origin may itself raise
Exit(t) ==
    /\ tpc[t] = "run"
    /\ stack[t] # <<>>
    /\ LET sc == stack[t][Len(stack[t])]
       IN  IF sc.topo_used /\ sc.config.reset
           THEN \/ /\ engine' = [engine EXCEPT !.topo = 0]
                   /\ exc' = exc
                \/ /\ engine' = engine
                   /\ exc' = [exc EXCEPT ![t] = TRUE]
           ELSE UNCHANGED <<engine, exc>>
    /\ Released(t)
    /\ stack' = [stack EXCEPT ![t] = SubSeq(@, 1, Len(@) - 1)]
    /\ kept' = [kept EXCEPT ![t] = @ \/ stack[t][Len(stack[t])].topo_used]
    /\ UNCHANGED <<tpc, pend, started>>
    /\ UNCHANGED <<svars, xvars>>

\* the exception has left every with-statement of thread t; its caller
\* handles it
Handled(t) ==
    /\ tpc[t] = "run"
    /\ exc[t]
    /\ stack[t] = <<>>
    /\ exc' = [exc EXCEPT ![t] = FALSE]
    /\ UNCHANGED <<lockOwner, lockCount, tpc, pend, stack, started, kept, engine>>
    /\ UNCHANGED <<svars, xvars>>

---------------------------------------------------------------------------
(* The Provider (provider.py) *)

\* the instants of one cache key: round(jd, 9) maps JdQuantum neighbouring
\* floats of the Julian Day to one value
JdQuantum == 2

\* _jd_key: round(float(jd_ut), 9) (provider.py lines 46-47), to the nearest
\* multiple of the quantum, a half to the even one; jd >= 0
JdKey(jd) ==
    LET q == jd \div JdQuantum
        r == jd % JdQuantum
    IN  IF 2 * r < JdQuantum THEN q * JdQuantum
        ELSE IF 2 * r > JdQuantum THEN (q + 1) * JdQuantum
        ELSE IF q % 2 = 0 THEN q * JdQuantum ELSE (q + 1) * JdQuantum

\* _planet_flags (provider.py lines 49-65); use_truepos is the default of
\* the Calibration, the perspective TOPOCENTRIC
PlanetFlags(c) ==
    {"SWIEPH", "SPEED"}
      \cup (IF CalibrationOf(c).use_truepos THEN {"TRUEPOS"} ELSE {})
      \cup (IF c.zodiac = ZodiacType.SIDEREAL THEN {"SIDEREAL"} ELSE {})
      \cup (IF c.topo THEN {"TOPOCTR"} ELSE {})

\* engine.calc_ut(jd_ut, body, flags) as (lon, speed_lon): a value for every
\* instant, body and flags; with the flag SIDEREAL it depends on the
\* sidereal mode of the engine, with TOPOCTR on its topocentric origin
CalcUt(e, jd, body, flags) ==
    [of |-> "calc_ut", jd |-> jd, body |-> body, flags |-> flags,
     sid |-> IF "SIDEREAL" \in flags THEN e.sid ELSE "any",
     topo |-> IF "TOPOCTR" \in flags THEN e.topo ELSE 0]

\* engine.get_ayanamsa_ex_ut(jd_ut, flags): the ayanamsa of the sidereal
\* mode the engine is in
GetAyanamsaExUt(e, jd, flags) ==
    [of |-> "get_ayanamsa_ex_ut", jd |-> jd, body |-> "none", flags |-> flags,
     sid |-> e.sid, topo |-> 0]

Bodies == {"MOON"}

QueryJds == 0 .. MaxQueryJd

\* a provider operation that asks the engine every time and stores nothing
Lookup_NoStore(t, i, op, jd, body, key, fresh) ==
    LET p == stack[t][i].provider
    IN  /\ stack' = stack
        /\ calls' = calls \cup
              {[by |-> p.id, sig |-> p.sig, site |-> p.site, op |-> op,
                jd |-> jd, body |-> body, hit |-> FALSE, out |-> fresh,
                oracle |-> fresh, src |-> p.id]}

\* a provider operation that asks the engine every time and stores what it
\* returns over the entry of the key
Lookup_Overwrite(t, i, op, jd, body, key, fresh) ==
    LET p == stack[t][i].provider
        entry == key :> [value |-> fresh, by |-> p.id]
    IN  /\ stack' = [stack EXCEPT ![t][i].provider.cache =
                        [k \in DOMAIN @ \cup {key} |-> (entry @@ @)[k]]]
        /\ calls' = calls \cup
              {[by |-> p.id, sig |-> p.sig, site |-> p.site, op |-> op,
                jd |-> jd, body |-> body, hit |-> FALSE, out |-> fresh,
                oracle |-> fresh, src |-> p.id]}

\* a provider operation of thread t on the Provider of its i-th session:
\* look the key up, ask the engine on a miss and store what it returns
\* (provider.py lines 80-87, 90-95)
Lookup(t, i, op, jd, body, key, fresh) ==
    LET p == stack[t][i].provider
        hit == key \in DOMAIN p.cache
        out == IF hit THEN p.cache[key].value ELSE fresh
    IN  /\ stack' = IF hit THEN stack
                    ELSE [stack EXCEPT ![t][i].provider.cache =
                            @ @@ (key :> [value |-> fresh, by |-> p.id])]
        /\ calls' = calls \cup
              {[by |-> p.id, sig |-> p.sig, site |-> p.site, op |-> op,
                jd |-> jd, body |-> body, hit |-> hit, out |-> out,
                oracle |-> fresh,
                src |-> IF hit THEN p.cache[key].by ELSE p.id]}

\* thread t may call a Provider of one of its sessions
MayCall(t, i) ==
    /\ tpc[t] = "run"
    /\ ~exc[t]
    /\ i \in 1 .. Len(stack[t])
    /\ Cardinality(calls) < MaxCalls

\* EphemerisProvider.planet_lon_speed(jd_ut, body_id) (provider.py lines 76-87)
PlanetLonSpeed(t) ==
    \E i \in DOMAIN stack[t], jd \in QueryJds, body \in Bodies :
      /\ MayCall(t, i)
      /\ LET p == stack[t][i].provider
             flags == PlanetFlags(p.config)
             key == [tag |-> "calc_ut", sig |-> p.sig, jd |-> JdKey(jd),
                     body |-> body, flags |-> flags]
         IN  Lookup(t, i, "planet_lon_speed", jd, body, key,
                    CalcUt(engine, jd, body, flags))
      /\ UNCHANGED <<lockOwner, lockCount, tpc, pend, exc, started, kept, engine>>
      /\ UNCHANGED <<svars, prov, cvars, avars>>

\* EphemerisProvider.ayanamsa(jd_ut) (provider.py lines 89-95)
Ayanamsa(t) ==
    \E i \in DOMAIN stack[t], jd \in QueryJds :
      /\ MayCall(t, i)
      /\ LET p == stack[t][i].provider
             key == [tag |-> "ayan", sig |-> p.sig, jd |-> JdKey(jd),
                     body |-> "none", flags |-> {"SWIEPH"}]
         IN  Lookup(t, i, "ayanamsa", jd, "none", key,
                    GetAyanamsaExUt(engine, jd, {"SWIEPH"}))
      /\ UNCHANGED <<lockOwner, lockCount, tpc, pend, exc, started, kept, engine>>
      /\ UNCHANGED <<svars, prov, cvars, avars>>

\* what the engine raises for a query it cannot answer
OracleError(jd, body, flags) ==
    [of |-> "OracleError", jd |-> jd, body |-> body, flags |-> flags,
     sid |-> "any", topo |-> 0]

\* a provider operation that stores what the engine raised as the entry of
\* the key
LookupRaises_Stored(t, i, op, jd, body, key, error) ==
    LET p == stack[t][i].provider
    IN  /\ key \notin DOMAIN p.cache
        /\ stack' = [stack EXCEPT ![t][i].provider.cache =
                        @ @@ (key :> [value |-> error, by |-> p.id])]
        /\ calls' = calls \cup
              {[by |-> p.id, sig |-> p.sig, site |-> p.site, op |-> op,
                jd |-> jd, body |-> body, hit |-> FALSE, out |-> error,
                oracle |-> error, src |-> p.id]}

\* a provider operation whose engine call raises: the key is not in the
\* cache, the engine is asked, and its exception leaves the operation
\* before the store (provider.py lines 80-85, 90-93)
LookupRaises(t, i, op, jd, body, key, error) ==
    LET p == stack[t][i].provider
    IN  /\ key \notin DOMAIN p.cache
        /\ stack' = stack
        /\ calls' = calls \cup
              {[by |-> p.id, sig |-> p.sig, site |-> p.site, op |-> op,
                jd |-> jd, body |-> body, hit |-> FALSE, out |-> error,
                oracle |-> error, src |-> p.id]}

\* the exception of a provider operation reaches the body of the session:
\* the body handles it and goes on, or the body ends with it
Propagates(t) ==
    \E caught \in BOOLEAN : exc' = [exc EXCEPT ![t] = ~caught]

\* planet_lon_speed(jd_ut, body_id) when engine.calc_ut raises
PlanetLonSpeedRaises(t) ==
    \E i \in DOMAIN stack[t], jd \in QueryJds, body \in Bodies :
      /\ MayCall(t, i)
      /\ LET p == stack[t][i].provider
             flags == PlanetFlags(p.config)
             key == [tag |-> "calc_ut", sig |-> p.sig, jd |-> JdKey(jd),
                     body |-> body, flags |-> flags]
         IN  LookupRaises(t, i, "planet_lon_speed", jd, body, key,
                          OracleError(jd, body, flags))
      /\ Propagates(t)
      /\ UNCHANGED <<lockOwner, lockCount, tpc, pend, started, kept, engine>>
      /\ UNCHANGED <<svars, prov, cvars, avars>>

\* ayanamsa(jd_ut) when engine.get_ayanamsa_ex_ut raises
AyanamsaRaises(t) ==
    \E i \in DOMAIN stack[t], jd \in QueryJds :
      /\ MayCall(t, i)
      /\ LET p == stack[t][i].provider
             key == [tag |-> "ayan", sig |-> p.sig, jd |-> JdKey(jd),
                     body |-> "none", flags |-> {"SWIEPH"}]
         IN  LookupRaises(t, i, "ayanamsa", jd, "none", key,
                          OracleError(jd, "none", {"SWIEPH"}))
      /\ Propagates(t)
      /\ UNCHANGED <<lockOwner, lockCount, tpc, pend, started, kept, engine>>
      /\ UNCHANGED <<svars, prov, cvars, avars>>

ThreadStep(t) ==
    \/ BeginWith(t)
    \/ Acquire(t)
    \/ EnterReturns(t)
    \/ EnterRaises(t)
    \/ BodyRaises(t)
    \/ Exit(t)
    \/ Handled(t)

---------------------------------------------------------------------------
(* A Provider on its own: EphemerisProvider is a dataclass that anyone     *)
(* holding a Calibration and the engine may construct (provider.py lines   *)
(* 24-41).                                                                 *)

\* the lunar nodes: swe.TRUE_NODE and swe.MEAN_NODE
NodeBodies == {"TRUE_NODE", "MEAN_NODE"}

\* mutant of MapNodes: the body asked for is the body queried
MapNodes_Identity(cal, body) == body

\* _map_nodes (provider.py lines 67-71)
MapNodes(cal, body) ==
    IF body \in NodeBodies
    THEN IF cal.nodes = "TRUE" THEN "TRUE_NODE" ELSE "MEAN_NODE"
    ELSE body

\* _planet_flags (provider.py lines 49-65) of a Calibration
PlanetFlagsOf(cal) ==
    {"SWIEPH", "SPEED"}
      \cup (IF cal.use_truepos THEN {"TRUEPOS"} ELSE {})
      \cup (IF cal.zodiac_type = "SIDEREAL" THEN {"SIDEREAL"} ELSE {})
      \cup (IF cal.perspective = "TOPOCENTRIC" /\ cal.topo.enabled
            THEN {"TOPOCTR"} ELSE {})

\* EphemerisProvider(config, engine, lon, lat, alt_m) with __post_init__
\* (provider.py lines 25-41), lon and lat 0.0
StandaloneProvider(cal, alt) ==
    [config |-> cal, sig |-> Signature(cal), alt_m |-> alt, cache |-> EmptyCache]

\* the Calibrations of NodeSpec: the fields _map_nodes and _planet_flags read
NodeCalibrations ==
    { [DefaultCalibration EXCEPT !.nodes = n, !.use_truepos = u,
         !.zodiac_type = z, !.perspective = v, !.topo.enabled = e] :
        n \in DOMAIN NodeMode, u \in BOOLEAN, z \in DOMAIN ZodiacType,
        v \in {"TRUE_GEOCENTRIC", "TOPOCENTRIC"}, e \in BOOLEAN }

ConstructNodeProvider ==
    /\ prov = <<>>
    /\ \E cal \in NodeCalibrations : prov' = <<StandaloneProvider(cal, 0)>>
    /\ UNCHANGED calls
    /\ UNCHANGED <<svars, tvars, cvars, avars>>

\* planet_lon_speed(jd_ut, body_id) of a Provider on its own (provider.py
\* lines 76-87)
NodePlanetLonSpeed ==
    /\ Cardinality(calls) < MaxNodeCalls
    /\ \E i \in DOMAIN prov, jd \in QueryJds, body_id \in NodeBodies \cup {"MOON"} :
         LET p == prov[i]
             body == MapNodes(p.config, body_id)
             flags == PlanetFlagsOf(p.config)
             key == [tag |-> "calc_ut", sig |-> p.sig, jd |-> JdKey(jd),
                     body |-> body, flags |-> flags]
             hit == key \in DOMAIN p.cache
             fresh == CalcUt(engine, jd, body, flags)
         IN  /\ prov' = IF hit THEN prov
                         ELSE [prov EXCEPT ![i].cache = @ @@ (key :> fresh)]
             /\ calls' = calls \cup
                   {[by |-> i, op |-> "planet_lon_speed", jd |-> jd,
                     body |-> body_id, key |-> key, hit |-> hit,
                     query |-> IF hit THEN None ELSE fresh,
                     out |-> IF hit THEN p.cache[key] ELSE fresh]}
    /\ UNCHANGED <<svars, tvars, cvars, avars>>

NodeNext ==
    \/ ConstructNodeProvider
    \/ NodePlanetLonSpeed

\* the Calibrations of RiseSpec: the fields of the sunrise policy
RiseCalibrations ==
    { [DefaultCalibration EXCEPT !.sunrise.style = st, !.sunrise.disc = d,
         !.sunrise.use_refraction = r,
         !.sunrise.atmosphere.pressure_mbar = a] :
        st \in DOMAIN RiseSetStyle, d \in DOMAIN SunriseDisc, r \in BOOLEAN,
        a \in 0 .. MaxOffset }

\* two Providers that share one Calibration are constructed at sites that
\* differ in altitude only: at sea level and above it
ConstructRiseProvider ==
    /\ prov = <<>>
    /\ \E cal \in RiseCalibrations, alt \in 1 .. MaxOffset :
         prov' = <<StandaloneProvider(cal, 0), StandaloneProvider(cal, alt)>>
    /\ UNCHANGED calls
    /\ UNCHANGED <<svars, tvars, cvars, avars>>

\* an optional float argument: not given (None), or given
OptionalArgs == {<<>>, <<1>>}

\* engine.rise_trans(jd_ut, body, ephe_flags, rsmi, geopos, atpress, attemp):
\* a value for every query
RiseTrans(jd, body, ephe_flags, rsmi, geopos, atpress, attemp) ==
    [of |-> "rise_trans", jd |-> jd, body |-> body, ephe_flags |-> ephe_flags,
     rsmi |-> rsmi, geopos |-> geopos, atpress |-> atpress, attemp |-> attemp]

\* swe.CALC_RISE if rise else swe.CALC_SET (provider.py lines 143, 168)
CalcBit(rise) == IF rise THEN "CALC_RISE" ELSE "CALC_SET"

\* rsmi of rise_set (provider.py lines 143-146, 168-180)
RiseMode(sunrise, rise) ==
    IF sunrise.style = "PYJHORA_DRiK"
    THEN {CalcBit(rise), "BIT_HINDU_RISING", "FLG_TRUEPOS", "FLG_SPEED"}
    ELSE {CalcBit(rise)}
           \cup (IF sunrise.disc = "DISC_CENTER" THEN {"BIT_DISC_CENTER"}
                 ELSE {"BIT_DISC_BOTTOM"})
           \cup (IF ~sunrise.use_refraction THEN {"BIT_NO_REFRACTION"} ELSE {})

\* mutant of RiseGeopos: the altitude of the site is always passed on
RiseGeopos_Site(p) == <<0, 0, p.alt_m>>

\* geopos and rounded_geo of rise_set (provider.py lines 148, 163, 188,
\* 205); an altitude is a whole number of metres
RiseGeopos(p) ==
    IF p.config.sunrise.style = "PYJHORA_DRiK" THEN <<0, 0, 0>>
    ELSE <<0, 0, p.alt_m>>

\* rise_set(jd_ut, body_id, rise=..., atpress=..., attemp=...) of a
\* Provider on its own, for the Sun (provider.py lines 129-210)
ProviderRiseSet ==
    /\ Cardinality(calls) < MaxRiseCalls
    /\ \E i \in DOMAIN prov, rise \in BOOLEAN,
          atpress \in OptionalArgs, attemp \in OptionalArgs :
         LET p == prov[i]
             jd == 0
             sunrise == p.config.sunrise
             drik == sunrise.style = "PYJHORA_DRiK"
             ephe_flags == IF drik THEN {} ELSE {"SWIEPH"}
             rsmi == RiseMode(sunrise, rise)
             pr == IF atpress = <<>> THEN sunrise.atmosphere.pressure_mbar ELSE atpress[1]
             te == IF attemp = <<>> THEN sunrise.atmosphere.temperature_c ELSE attemp[1]
             geo == RiseGeopos(p)
             key == IF drik
                    THEN <<"rise_set", p.sig, JdKey(jd), "SUN", rise, ephe_flags, rsmi, geo>>
                    ELSE <<"rise_set", p.sig, JdKey(jd), "SUN", rise, ephe_flags, rsmi, geo, pr, te>>
             hit == key \in DOMAIN p.cache
             fresh == IF drik
                      THEN RiseTrans(jd, "SUN", ephe_flags, rsmi, geo, <<>>, <<>>)
                      ELSE RiseTrans(jd, "SUN", ephe_flags, rsmi, geo, <<pr>>, <<te>>)
         IN  /\ prov' = IF hit THEN prov
                         ELSE [prov EXCEPT ![i].cache = @ @@ (key :> fresh)]
             /\ calls' = calls \cup
                   {[by |-> i, op |-> "rise_set", jd |-> jd, rise |-> rise,
                     atpress |-> atpress, attemp |-> attemp, key |-> key,
                     hit |-> hit, asked |-> fresh,
                     out |-> IF hit THEN p.cache[key] ELSE fresh]}
    /\ UNCHANGED <<svars, tvars, cvars, avars>>

RiseNext ==
    \/ ConstructRiseProvider
    \/ ProviderRiseSet

---------------------------------------------------------------------------

\* no call of solve_root has been made
SolverInit ==
    /\ pc = "idle"
    /\ fn = NoFn
    /\ par = None
    /\ val = <<>>
    /\ spd = <<>>
    /\ x = 0
    /\ sa = 0
    /\ br = None
    /\ it = 0
    /\ lo = 0
    /\ hi = 0
    /\ vlo = 0
    /\ res = None
    /\ err = "none"
    /\ hist = NoHist

\* no provider call has been made, no Calibration constructed, no angle
\* helper called
OtherInit ==
    /\ calls = {}
    /\ prov = <<>>
    /\ CalibInit
    /\ AngleInit

Init ==
    /\ SessionInit
    /\ SolverInit
    /\ OtherInit

Params(start, end, tol, step, nmax, bmax, minspeed) ==
    [start |-> start, end |-> end, tol |-> tol, step |-> step,
     nmax |-> nmax, bmax |-> bmax, minspeed |-> minspeed]

\* mutant of SolveResult: every result is tagged "newton"
SolveResult_Newton(root, method, iterations, bracket) ==
    [root |-> root, method |-> "newton", iterations |-> iterations, bracket |-> bracket]

\* SolveResult (solver.py lines 11-16)
SolveResult(root, method, iterations, bracket) ==
    [root |-> root, method |-> method, iterations |-> iterations, bracket |-> bracket]

\* tabulated f: min_speed, above the least non-zero speed of the table
TableMinSpeed == 2

\* solve_root(f, start, end, ...) is called with a tabulated f
CallTable ==
    /\ pc = "idle"
    /\ \E end \in {0, MaxJd}, step \in {0, 2, 4}, tol \in 1 .. MaxTol,
          nmax \in {1, MaxNewtonIter} :
         par' = Params(0, end, tol, step, nmax, MaxBisectIter, TableMinSpeed)
    /\ fn' = [NoFn EXCEPT !.kind = "table"]
    /\ pc' = "scan0"
    /\ UNCHANGED <<val, spd, x, sa, br, it, lo, hi, vlo, res, err, hist>>

\* solve_root(f, start, end, ...) is called with f(x) = (s * (x - r), s), the
\* iteration caps left at their defaults (test_solver.py lines 11-14)
CallAffine ==
    /\ pc = "idle"
    /\ \E s \in (-MaxSlope .. MaxSlope) \ {0}, r \in 0 .. MaxRoot,
          step \in {1, 2, 3, MaxRoot}, tol \in 1 .. MaxTol, ms \in 1 .. 2 :
         /\ par' = Params(0, MaxRoot, tol, step, DefaultNewtonMaxIter,
                          DefaultBisectionMaxIter, ms)
         /\ fn' = [kind |-> "affine", s |-> s, r |-> r]
    /\ pc' = "scan0"
    /\ UNCHANGED <<val, spd, x, sa, br, it, lo, hi, vlo, res, err, hist>>

\* the window, the scan steps and min_speed of the stationary-root call
\* (test_solver.py line 34) in grid units
CubicEnd == 21
CubicSteps == {2, 20}
CubicMinSpeed == 200

\* solve_root(f, start, end, ...) is called with f(x) = (x^3, 3 x^2) on a
\* window around the stationary root 0 (test_solver.py lines 31-34)
CallCubic ==
    /\ pc = "idle"
    /\ \E start \in {-CubicEnd, -CubicEnd + 1}, step \in CubicSteps, ms \in {1, CubicMinSpeed} :
         par' = Params(start, CubicEnd, 1, step, DefaultNewtonMaxIter,
                       DefaultBisectionMaxIter, ms)
    /\ fn' = [NoFn EXCEPT !.kind = "cubic"]
    /\ pc' = "scan0"
    /\ UNCHANGED <<val, spd, x, sa, br, it, lo, hi, vlo, res, err, hist>>

\* SearchParams (finder.py lines 41-43, 51, 71, 89) on the grid: the scan step
\* of 1/12 day, max_days_ahead of 1.5 days (tithi) and 1.3 days (nakshatra,
\* yoga), the accuracy of 0.1 s
ScanStepTicks == 5
TithiAhead == 90
StarAhead == 78
FinderTol == 2

\* min_speed = 1e-10 (solver.py line 184): below every non-zero speed
DefaultMinSpeed == 1

\* the ephemerides of the model
Ephemerides ==
    [m0 : 0 .. Circle - 1, mu : {0, 2, 3}, s0 : {0, 7}, su : {0, 1}]

\* the call of solve_root that ends a finder operation (finder.py lines 67-68)
FinderCall(kind, eph, start, span, period, ahead) ==
    /\ fn' = [kind |-> kind, eph |-> eph, period |-> period * span,
              target |-> FloorPlusOne(IndexAt(kind, eph, start)[1], span)]
    /\ par' = Params(start, start + ahead, FinderTol, ScanStepTicks,
                     DefaultNewtonMaxIter, DefaultBisectionMaxIter, DefaultMinSpeed)
    /\ pc' = "scan0"
    /\ UNCHANGED <<val, spd, x, sa, br, it, lo, hi, vlo, res, err, hist>>

\* PanchangaFinder.next_tithi_end(start_jd) (finder.py lines 50-68)
NextTithiEnd ==
    /\ pc = "idle"
    /\ \E eph \in Ephemerides, start \in {0, 1} :
         FinderCall("tithi", eph, start, TithiSpan, TithiPeriod, TithiAhead)

\* PanchangaFinder.next_nakshatra_end(start_jd) (finder.py lines 70-86)
NextNakshatraEnd ==
    /\ pc = "idle"
    /\ \E eph \in Ephemerides, start \in {0, 1} :
         FinderCall("nakshatra", eph, start, StarSpan, StarPeriod, StarAhead)

\* PanchangaFinder.next_yoga_end(start_jd) (finder.py lines 88-106)
NextYogaEnd ==
    /\ pc = "idle"
    /\ \E eph \in Ephemerides, start \in {0, 1} :
         FinderCall("yoga", eph, start, StarSpan, StarPeriod, StarAhead)

\* bracket_root up to its loop (solver.py lines 50-61)
BracketStart ==
    /\ pc = "scan0"
    /\ IF par.end <= par.start \/ par.step <= 0
       THEN /\ pc' = "raised"
            /\ err' = "ValueError"
            /\ UNCHANGED <<val, spd, x, sa, br, res, hist>>
       ELSE \E v \in ValuesAt(par.start) :
              /\ SeenValue(par.start, v)
              /\ hist' = [hist EXCEPT !.scan = @ + 1]
              /\ IF Sign(v) = 0
                 THEN \* return (a, a); solve_root lines 197-198
                      /\ br' = <<par.start, par.start>>
                      /\ res' = SolveResult(par.start, "bracket_hit", 0, br')
                      /\ pc' = "done"
                      /\ UNCHANGED <<x, sa, err>>
                 ELSE /\ x' = par.start
                      /\ sa' = Sign(v)
                      /\ pc' = "scan"
                      /\ UNCHANGED <<br, res, err>>
    /\ UNCHANGED <<fn, par, it, lo, hi, vlo>>

\* the first Newton iterate: the midpoint, clamped (solver.py lines 201, 135-146)
Clamp(nx, a, b) == IF nx < a THEN a ELSE IF nx > b THEN b ELSE nx

\* one iteration of the scan loop of bracket_root (solver.py lines 62-71)
ScanStep ==
    /\ pc = "scan"
    /\ x < par.end
    /\ LET nx == Min(x + par.step, par.end)
       IN  \E v \in ValuesAt(nx) :
             /\ SeenValue(nx, v)
             /\ hist' = [hist EXCEPT !.scan = @ + 1]
             /\ IF Sign(v) = 0
                THEN /\ br' = <<nx, nx>>
                     /\ res' = SolveResult(nx, "bracket_hit", 0, br')
                     /\ pc' = "done"
                     /\ UNCHANGED <<x, sa, it>>
                ELSE IF sa # Sign(v)
                THEN /\ br' = <<x, nx>>
                     /\ x' = Clamp(Mid(x, nx), x, nx)
                     /\ it' = 1
                     /\ pc' = "newton"
                     /\ UNCHANGED <<sa, res>>
                ELSE /\ x' = nx
                     /\ sa' = Sign(v)
                     /\ UNCHANGED <<pc, br, res, it>>
    /\ UNCHANGED <<fn, par, lo, hi, vlo, err>>

\* mutant of ScanFail: the end of the window is returned as the root
ScanFail_ReturnsEnd ==
    /\ pc = "scan"
    /\ ~(x < par.end)
    /\ pc' = "done"
    /\ res' = SolveResult(par.end, "bracket_hit", 0, <<par.end, par.end>>)
    /\ UNCHANGED <<fn, par, val, spd, x, sa, br, it, lo, hi, vlo, err, hist>>

\* the scan loop ends without a sign change (solver.py line 73)
ScanFail ==
    /\ pc = "scan"
    /\ ~(x < par.end)
    /\ pc' = "raised"
    /\ err' = "NoBracketError"
    /\ UNCHANGED <<fn, par, val, spd, x, sa, br, it, lo, hi, vlo, res, hist>>

\* the instants bracket_root is called at: a small one, around which every
\* grid point is a float, and one of the magnitude of a Julian Day, around
\* which the floats are two grid points apart
ScanStarts == {0, 2 ^ Precision + 88}

\* bracket_root(f, start_jd, end_jd, step_days=...) is called on floats with
\* a tabulated f
CallBracketRoot ==
    /\ pc = "idle"
    /\ \E start \in ScanStarts, step \in {0, 3, 5} :
         par' = Params(start, Fl(start + MaxScanWindow), 1, step,
                       DefaultNewtonMaxIter, DefaultBisectionMaxIter, 1)
    /\ fn' = [NoFn EXCEPT !.kind = "table"]
    /\ pc' = "fscan0"
    /\ UNCHANGED <<val, spd, x, sa, br, it, lo, hi, vlo, res, err, hist>>

\* bracket_root up to its loop (solver.py lines 50-61), called on its own
FloatScanStart ==
    /\ pc = "fscan0"
    /\ IF par.end <= par.start \/ par.step <= 0
       THEN /\ pc' = "raised"
            /\ err' = "ValueError"
            /\ UNCHANGED <<val, spd, x, sa, br, hist>>
       ELSE \E v \in ValuesAt(par.start) :
              /\ SeenValue(par.start, v)
              /\ hist' = [hist EXCEPT !.scan = @ + 1]
              /\ IF Sign(v) = 0
                 THEN /\ br' = <<par.start, par.start>>
                      /\ pc' = "bracketed"
                      /\ UNCHANGED <<x, sa, err>>
                 ELSE /\ x' = par.start
                      /\ sa' = Sign(v)
                      /\ pc' = "fscan"
                      /\ UNCHANGED <<br, err>>
    /\ UNCHANGED <<fn, par, it, lo, hi, vlo, res>>

\* mutant of FloatScanStep: the bracket returned begins at start_jd
FloatScanStep_FromStart ==
    /\ pc = "fscan"
    /\ x < par.end
    /\ LET nx == Min(Fl(x + par.step), par.end)
       IN  \E v \in ValuesAt(nx) :
             /\ SeenValue(nx, v)
             /\ hist' = [hist EXCEPT !.scan = Min(@ + 1, MaxScanEvals)]
             /\ IF Sign(v) = 0
                THEN /\ br' = <<nx, nx>>
                     /\ pc' = "bracketed"
                     /\ UNCHANGED <<x, sa>>
                ELSE IF sa # Sign(v)
                THEN /\ br' = <<par.start, nx>>
                     /\ pc' = "bracketed"
                     /\ UNCHANGED <<x, sa>>
                ELSE /\ x' = nx
                     /\ sa' = Sign(v)
                     /\ UNCHANGED <<pc, br>>
    /\ UNCHANGED <<fn, par, it, lo, hi, vlo, res, err>>

\* one iteration of the scan loop of bracket_root (solver.py lines 62-71) on
\* floats: x + step_days is the float nearest to the sum; the evaluations
\* of f are counted up to MaxScanEvals
FloatScanStep ==
    /\ pc = "fscan"
    /\ x < par.end
    /\ LET nx == Min(Fl(x + par.step), par.end)
       IN  \E v \in ValuesAt(nx) :
             /\ SeenValue(nx, v)
             /\ hist' = [hist EXCEPT !.scan = Min(@ + 1, MaxScanEvals)]
             /\ IF Sign(v) = 0
                THEN /\ br' = <<nx, nx>>
                     /\ pc' = "bracketed"
                     /\ UNCHANGED <<x, sa>>
                ELSE IF sa # Sign(v)
                THEN /\ br' = <<x, nx>>
                     /\ pc' = "bracketed"
                     /\ UNCHANGED <<x, sa>>
                ELSE /\ x' = nx
                     /\ sa' = Sign(v)
                     /\ UNCHANGED <<pc, br>>
    /\ UNCHANGED <<fn, par, it, lo, hi, vlo, res, err>>

\* the scan loop ends without a sign change (solver.py line 73)
FloatScanFail ==
    /\ pc = "fscan"
    /\ ~(x < par.end)
    /\ pc' = "raised"
    /\ err' = "NoBracketError"
    /\ UNCHANGED <<fn, par, val, spd, x, sa, br, it, lo, hi, vlo, res, hist>>

\* bracket_root is called with a step_days of one or two grid units, the
\* distance of two floats being 1 below 2 ^ Precision and 2 above
CallBracketRootFine ==
    /\ pc = "idle"
    /\ \E start \in ScanStarts, step \in {1, 2} :
         par' = Params(start, Fl(start + MaxFineWindow), 1, step,
                       DefaultNewtonMaxIter, DefaultBisectionMaxIter, 1)
    /\ fn' = [NoFn EXCEPT !.kind = "table"]
    /\ pc' = "fscan0"
    /\ UNCHANGED <<val, spd, x, sa, br, it, lo, hi, vlo, res, err, hist>>

FineScanNext ==
    \/ CallBracketRootFine /\ UNCHANGED <<tvars, xvars>>
    \/ FloatScanStart /\ UNCHANGED <<tvars, xvars>>
    \/ FloatScanStep /\ UNCHANGED <<tvars, xvars>>
    \/ FloatScanFail /\ UNCHANGED <<tvars, xvars>>

ScanNext ==
    \/ CallBracketRoot /\ UNCHANGED <<tvars, xvars>>
    \/ FloatScanStart /\ UNCHANGED <<tvars, xvars>>
    \/ FloatScanStep /\ UNCHANGED <<tvars, xvars>>
    \/ FloatScanFail /\ UNCHANGED <<tvars, xvars>>

\* the iterate after a Newton step that was not accepted (solver.py lines 164-170)
NextIterate(nx, a, b) == Clamp(nx, a, b)

\* one iteration of newton_speed_assisted (solver.py lines 148-170); its
\* NonConvergenceError is caught by solve_root (line 213)
NewtonIter ==
    /\ pc = "newton"
    /\ it <= par.nmax
    /\ \E o \in Outputs(x) :
         LET v == o[1]
             s == o[2]
             nx == x - RoundDiv(v, s)
         IN  /\ SeenBoth(x, v, s)
             /\ IF Abs(v) <= VEps
                THEN /\ res' = SolveResult(x, "newton", it, br)
                     /\ pc' = "done"
                     /\ hist' = [hist EXCEPT !.newton = @ + 1]
                     /\ UNCHANGED <<x, it>>
                ELSE IF Abs(s) < par.minspeed
                THEN /\ pc' = "bisect0"
                     /\ hist' = [hist EXCEPT !.newton = @ + 1, !.nraise = "speed"]
                     /\ UNCHANGED <<x, it, res>>
                ELSE IF Abs(nx - x) <= par.tol
                THEN /\ res' = SolveResult(nx, "newton", it, br)
                     /\ pc' = "done"
                     /\ hist' = [hist EXCEPT !.newton = @ + 1]
                     /\ UNCHANGED <<x, it>>
                ELSE /\ x' = NextIterate(nx, br[1], br[2])
                     /\ it' = it + 1
                     /\ hist' = [hist EXCEPT !.newton = @ + 1]
                     /\ UNCHANGED <<pc, res>>
    /\ UNCHANGED <<fn, par, sa, br, lo, hi, vlo, err>>

\* mutant of NewtonExhausted: the NonConvergenceError is not caught
NewtonExhausted_NotCaught ==
    /\ pc = "newton"
    /\ ~(it <= par.nmax)
    /\ pc' = "raised"
    /\ err' = "NonConvergenceError"
    /\ hist' = [hist EXCEPT !.nraise = "maxiter"]
    /\ UNCHANGED <<fn, par, val, spd, x, sa, br, it, lo, hi, vlo, res>>

\* the loop of newton_speed_assisted ends (solver.py line 172); solve_root
\* catches the NonConvergenceError (line 213)
NewtonExhausted ==
    /\ pc = "newton"
    /\ ~(it <= par.nmax)
    /\ pc' = "bisect0"
    /\ hist' = [hist EXCEPT !.nraise = "maxiter"]
    /\ UNCHANGED <<fn, par, val, spd, x, sa, br, it, lo, hi, vlo, res, err>>

\* bisection up to its loop (solver.py lines 87-106)
BisectionStart ==
    /\ pc = "bisect0"
    /\ LET a == Min(br[1], br[2])
           b == IF br[2] < br[1] THEN br[1] ELSE br[2]
       IN  \E va \in ValuesAt(a), vb \in ValuesAt(b) :
             /\ val' = IF fn.kind = "table" THEN (a :> va) @@ (b :> vb) @@ val ELSE val
             /\ spd' = spd
             /\ hist' = [hist EXCEPT !.bisect = @ + 2]
             /\ IF Sign(va) = 0
                THEN /\ res' = SolveResult(a, "bisection", 0, <<a, b>>)
                     /\ pc' = "done"
                     /\ UNCHANGED <<it, lo, hi, vlo, err>>
                ELSE IF Sign(vb) = 0
                THEN /\ res' = SolveResult(b, "bisection", 0, <<a, b>>)
                     /\ pc' = "done"
                     /\ UNCHANGED <<it, lo, hi, vlo, err>>
                ELSE IF Sign(va) = Sign(vb)
                THEN /\ pc' = "raised"
                     /\ err' = "NoBracketError"
                     /\ UNCHANGED <<it, lo, hi, vlo, res>>
                ELSE /\ it' = 0
                     /\ lo' = a
                     /\ hi' = b
                     /\ vlo' = va
                     /\ pc' = "bisect"
                     /\ UNCHANGED <<res, err>>
    /\ UNCHANGED <<fn, par, x, sa, br>>

\* mutant of BisectionIter: the half that keeps the sign of lo is kept
BisectionIter_WrongHalf ==
    /\ pc = "bisect"
    /\ it < par.bmax /\ (hi - lo) > par.tol
    /\ LET mid == Mid(lo, hi)
       IN  \E v \in ValuesAt(mid) :
             /\ SeenValue(mid, v)
             /\ hist' = [hist EXCEPT !.bisect = @ + 1]
             /\ IF Sign(v) = 0
                THEN /\ res' = SolveResult(mid, "bisection", it + 1, br)
                     /\ pc' = "done"
                     /\ UNCHANGED <<it, lo, hi, vlo>>
                ELSE IF Sign(v) = Sign(vlo)
                THEN /\ hi' = mid
                     /\ it' = it + 1
                     /\ UNCHANGED <<pc, lo, vlo, res>>
                ELSE /\ lo' = mid
                     /\ vlo' = v
                     /\ it' = it + 1
                     /\ UNCHANGED <<pc, hi, res>>
    /\ UNCHANGED <<fn, par, x, sa, br, err>>

\* one iteration of the bisection loop (solver.py lines 107-117)
BisectionIter ==
    /\ pc = "bisect"
    /\ it < par.bmax /\ (hi - lo) > par.tol
    /\ LET mid == Mid(lo, hi)
       IN  \E v \in ValuesAt(mid) :
             /\ SeenValue(mid, v)
             /\ hist' = [hist EXCEPT !.bisect = @ + 1]
             /\ IF Sign(v) = 0
                THEN /\ res' = SolveResult(mid, "bisection", it + 1, br)
                     /\ pc' = "done"
                     /\ UNCHANGED <<it, lo, hi, vlo>>
                ELSE IF Sign(v) = Sign(vlo)
                THEN /\ lo' = mid
                     /\ vlo' = v
                     /\ it' = it + 1
                     /\ UNCHANGED <<pc, hi, res>>
                ELSE /\ hi' = mid
                     /\ it' = it + 1
                     /\ UNCHANGED <<pc, lo, vlo, res>>
    /\ UNCHANGED <<fn, par, x, sa, br, err>>

\* mutant of BisectionReturn: the lower end of the last interval is returned
BisectionReturn_Lo ==
    /\ pc = "bisect"
    /\ ~(it < par.bmax /\ (hi - lo) > par.tol)
    /\ res' = SolveResult(lo, "bisection", it, br)
    /\ pc' = "done"
    /\ UNCHANGED <<fn, par, val, spd, x, sa, br, it, lo, hi, vlo, err, hist>>

\* the bisection loop ends: the final midpoint (solver.py line 119)
BisectionReturn ==
    /\ pc = "bisect"
    /\ ~(it < par.bmax /\ (hi - lo) > par.tol)
    /\ res' = SolveResult(Mid(lo, hi), "bisection", it, br)
    /\ pc' = "done"
    /\ UNCHANGED <<fn, par, val, spd, x, sa, br, it, lo, hi, vlo, err, hist>>

Next ==
    \/ CallTable /\ UNCHANGED <<tvars, xvars>>
    \/ CallAffine /\ UNCHANGED <<tvars, xvars>>
    \/ CallCubic /\ UNCHANGED <<tvars, xvars>>
    \/ NextTithiEnd /\ UNCHANGED <<tvars, xvars>>
    \/ NextNakshatraEnd /\ UNCHANGED <<tvars, xvars>>
    \/ NextYogaEnd /\ UNCHANGED <<tvars, xvars>>
    \/ BracketStart /\ UNCHANGED <<tvars, xvars>>
    \/ ScanStep /\ UNCHANGED <<tvars, xvars>>
    \/ ScanFail /\ UNCHANGED <<tvars, xvars>>
    \/ NewtonIter /\ UNCHANGED <<tvars, xvars>>
    \/ NewtonExhausted /\ UNCHANGED <<tvars, xvars>>
    \/ BisectionStart /\ UNCHANGED <<tvars, xvars>>
    \/ BisectionIter /\ UNCHANGED <<tvars, xvars>>
    \/ BisectionReturn /\ UNCHANGED <<tvars, xvars>>

\* one call of solve_root at a time, from the tests or from the finder
Spec == Init /\ [][Next]_vars

SessionNext == \E t \in Threads : ThreadStep(t)

\* the Calibrations of the sessions of ScopeSpec: one that installs no
\* sidereal mode and pushes no origin, one that does both and resets the
\* origin on exit
ScopeConfigs ==
    { c \in Configs :
        \/ c.zodiac = "Tropical" /\ ~c.topo /\ c.reset
        \/ c.zodiac = "Sidereal" /\ c.ayan = "Raman" /\ c.topo /\ c.reset }

BeginScope(t) ==
    /\ BeginWith(t)
    /\ pend'[t].config \in ScopeConfigs

ScopeStep(t) ==
    \/ BeginScope(t)
    \/ Acquire(t)
    \/ EnterReturns(t)
    \/ EnterRaises(t)
    \/ BodyRaises(t)
    \/ Exit(t)
    \/ Handled(t)

ScopeNext == \E t \in Threads : ScopeStep(t)

\* the thread whose sessions and provider calls ProviderSpec follows
Caller == 1

\* the Calibrations of the sessions of ProviderSpec: tropical, and
\* sidereal with a built-in ayanamsa, topocentric and without the reset
ProviderConfigs ==
    { c \in Configs :
        \/ c.zodiac = "Tropical" /\ ~c.topo /\ c.reset
        \/ c.zodiac = "Sidereal" /\ c.ayan = "Raman" /\ c.topo /\ ~c.reset }

BeginProviderSession ==
    /\ BeginUpTo(Caller, MaxProviderEnters)
    /\ pend'[Caller].config \in ProviderConfigs
    /\ ~pend'[Caller].topo_used

ProviderNext ==
    \/ BeginProviderSession
    \/ Acquire(Caller)
    \/ EnterReturns(Caller)
    \/ Exit(Caller)
    \/ PlanetLonSpeed(Caller)
    \/ Ayanamsa(Caller)

\* one thread, its sessions, whose entries succeed and whose bodies do not
\* raise, and the calls of their Providers
ProviderSpec == Init /\ [][ProviderNext]_vars

\* the Calibration of the sessions of OracleSpec
OracleConfigs == { c \in ProviderConfigs : c.zodiac = "Sidereal" }

BeginOracleSession ==
    /\ BeginUpTo(Caller, MaxOracleEnters)
    /\ pend'[Caller].config \in OracleConfigs
    /\ ~pend'[Caller].topo_used

OracleNext ==
    \/ BeginOracleSession
    \/ Acquire(Caller)
    \/ EnterReturns(Caller)
    \/ Exit(Caller)
    \/ Handled(Caller)
    \/ PlanetLonSpeed(Caller)
    \/ Ayanamsa(Caller)
    \/ PlanetLonSpeedRaises(Caller)
    \/ AyanamsaRaises(Caller)

\* one thread, its sessions and the calls of their Providers, the engine
\* answering or raising
OracleSpec == Init /\ [][OracleNext]_vars

\* Calibrations constructed, copied, assigned to and asked for signatures
CalibSpec == Init /\ [][CalibNext]_vars

\* the angle helpers called on floats
AngleSpec == Init /\ [][AngleNext]_vars

InterpSpec == Init /\ [][InterpNext]_vars

\* the two unwrap rules called on the same arguments
UnwrapSpec == Init /\ [][UnwrapNext]_vars

\* a Provider on its own asked for the longitude of the nodes and of the Moon
NodeSpec == Init /\ [][NodeNext]_vars

\* Providers on their own at sites of different altitude asked for the
\* rising and the setting of the Sun
RiseSpec == Init /\ [][RiseNext]_vars

\* the sessions of the process with the Calibrations of ScopeConfigs
ScopeSpec == Init /\ [][ScopeNext]_vars

\* one call of bracket_root on floats
ScanSpec == Init /\ [][ScanNext]_vars

\* one call of bracket_root on floats with a fine step
FineScanSpec == Init /\ [][FineScanNext]_vars


\* the sessions of the process, its threads scheduled fairly
SessionSpec ==
    Init /\ [][SessionNext]_vars /\ \A t \in Threads : WF_vars(ThreadStep(t))

---------------------------------------------------------------------------
(* Properties of solve_root *)

\* f(jd) as far as the state determines it
Known(jd) == fn.kind # "table" \/ jd \in DOMAIN val

FVal(jd) == IF fn.kind = "table" THEN val[jd] ELSE Formula(jd)[1]

Returned == pc = "done"

\* f is exactly zero at jd
ZeroAt(jd) == Known(jd) /\ FVal(jd) = 0

\* C1: every SolveResult returned by solve_root has its root inside the
\* bracket it reports, a <= root_jd <= b, and so inside [start_jd, end_jd],
\* whichever path produced it.
C1_RootInsideBracket ==
    Returned =>
        /\ res.bracket[1] <= res.root /\ res.root <= res.bracket[2]
        /\ par.start <= res.root /\ res.root <= par.end

\* C2: once the scan has found a bracket nothing is raised: a
\* NonConvergenceError of Newton (speed below min_speed, or the iteration
\* cap) leads to bisection on the same bracket, bisection finds opposite
\* signs at its ends, the call goes on until it returns, and bisection
\* stopped by its iteration cap returns the midpoint of its last interval.
C2_BracketedNeverRaises ==
    br # None =>
        /\ pc \in {"newton", "bisect0", "bisect", "done"}
        /\ err = "none"
        /\ (pc # "done" => ENABLED Next)
        /\ (pc \in {"bisect0", "bisect"} => hist.nraise \in {"speed", "maxiter"})
        /\ (pc = "bisect" =>
              /\ <<lo, hi>> = br \/ hist.bisect > 2
              /\ br[1] <= lo /\ lo < hi /\ hi <= br[2])
        /\ (Returned /\ hist.nraise # "none" =>
              /\ res.method = "bisection"
              /\ res.bracket = br
              /\ (res.iterations = par.bmax /\ ~ZeroAt(res.root)
                    => res.root = Mid(lo, hi)))

\* C2 witness: Newton raised, bisection ran into its iteration cap with an
\* interval still wider than tol_days, and solve_root returned its midpoint.
C2_Witness ==
    /\ Returned
    /\ hist.nraise = "maxiter"
    /\ res.method = "bisection"
    /\ res.iterations = par.bmax
    /\ hi - lo > par.tol
    /\ res.root = Mid(lo, hi)

\* the halvings that bring a bracket of width w down to tol
RECURSIVE Halvings(_, _)
Halvings(w, tol) == IF w <= tol THEN 0 ELSE 1 + Halvings((w + 1) \div 2, tol)

\* the root lies within tol_days of a sign change of f
NearSignChange(root) ==
    \/ ZeroAt(root)
    \/ /\ lo <= root /\ root <= hi
       /\ hi - lo <= par.tol
       /\ Sign(FVal(lo)) # 0
       /\ Sign(FVal(lo)) = -Sign(FVal(hi))

\* C3: when Newton meets |value| > 1e-14 and |speed| < min_speed before it
\* accepts a root, solve_root returns the root of bisection on the bracket,
\* method "bisection", within tol_days of the sign change (bisection_max_iter
\* allowing the halvings the bracket needs, as the default 80 does).
C3_StationaryFallsBackToBisection ==
    Returned /\ hist.nraise = "speed" =>
        /\ res.method = "bisection"
        /\ res.bracket = br
        /\ br[1] <= res.root /\ res.root <= br[2]
        /\ (Halvings(br[2] - br[1], par.tol) <= par.bmax => NearSignChange(res.root))

\* C3 witness: the stationary-root case: f(x) = (x^3, 3 x^2), Newton started
\* at the midpoint, moved, met a speed below min_speed, and bisection
\* returned a root within tol_days of 0.
C3_Witness ==
    /\ Returned
    /\ fn.kind = "cubic"
    /\ hist.nraise = "speed"
    /\ hist.newton > 1
    /\ res.method = "bisection"
    /\ Abs(res.root) <= par.tol

\* the points bracket_root probes when it finds no sign change
ScanPoints == { Min(par.start + k * par.step, par.end) : k \in 0 .. (par.end - par.start) }

\* C4: if f has the same non-zero sign at start_jd and at every scan point
\* (the last one clamped to end_jd, so end_jd is probed), solve_root fails
\* with NoBracketError, returns nothing and starts neither Newton nor
\* bisection.
C4_NoSignChangeRaisesNoBracket ==
    /\ pc \in {"done", "raised"}
    /\ par.end > par.start /\ par.step > 0
    /\ \A p \in ScanPoints : Known(p) => Sign(FVal(p)) = Sign(FVal(par.start))
    /\ Sign(FVal(par.start)) # 0
    => /\ pc = "raised"
       /\ err = "NoBracketError"
       /\ res = None
       /\ hist.newton = 0 /\ hist.bisect = 0
       /\ \A p \in ScanPoints : Known(p)
       /\ Known(par.end)

\* C4 witness: a scan of three steps, the last one clamped to end_jd, met the
\* same sign everywhere and raised NoBracketError.
C4_Witness ==
    /\ pc = "raised"
    /\ err = "NoBracketError"
    /\ hist.scan >= 4
    /\ (par.end - par.start) % par.step # 0
    /\ hist.newton = 0 /\ hist.bisect = 0

\* a finder operation was called
FinderCase == fn.kind \in FinderKinds

\* the speed of the index of the call, the index at start_jd, and the index
\* followed from start_jd without reduction modulo the period
Rate == IndexAt(fn.kind, fn.eph, par.start)[2]

Curr == IndexAt(fn.kind, fn.eph, par.start)[1]

Unwound(jd) == Curr + Rate * (jd - par.start)

\* the index moves forward and advances less than half its period inside
\* the search window
ForwardCase ==
    /\ FinderCase
    /\ Rate > 0
    /\ 2 * Rate * (par.end - par.start) < fn.period

\* distance of two indices on the cycle
CycleDist(i, j) ==
    LET d == (i - j) % fn.period
    IN  Min(d, fn.period - d)

\* C6: for an index that moves forward and advances less than half its
\* period inside the window, the root returned is where the index equals
\* floor(curr) + 1 modulo the period to within the solver tolerance, and the
\* index followed from start_jd reaches no integer before it; the boundary
\* is found whenever the index reaches it inside the window.
C6_NextBoundary ==
    ForwardCase /\ pc \in {"done", "raised"} =>
        /\ fn.target = FloorPlusOne(Curr, fn.period \div (IF fn.kind = "tithi" THEN TithiPeriod ELSE StarPeriod))
        /\ Curr < fn.target
        /\ (Returned =>
              /\ CycleDist(IndexAt(fn.kind, fn.eph, res.root)[1], fn.target) <= par.tol * Rate
              /\ Abs(Unwound(res.root) - fn.target) <= par.tol * Rate)
        /\ (Unwound(par.end) >= fn.target => Returned)

\* C6 witness: a tithi in its last step (target = period): the index wrapped
\* to 0 inside the bracket and the boundary was returned.
C6_Witness ==
    /\ ForwardCase
    /\ Returned
    /\ fn.kind = "tithi"
    /\ fn.target = fn.period
    /\ res.method = "newton"
    /\ res.root > par.start + ScanStepTicks
    /\ Abs(Unwound(res.root) - fn.target) <= par.tol * Rate

\* C7: the result of next_tithi_end, next_nakshatra_end and next_yoga_end
\* satisfies start_jd < root_jd <= start_jd + max_days_ahead.
C7_RootAfterStart ==
    FinderCase /\ Returned =>
        /\ par.start < res.root
        /\ res.root <= par.end

\* the affine call of C5: slope s # 0, root r inside the window
AffineCase == fn.kind = "affine" /\ fn.s # 0 /\ par.start <= fn.r /\ fn.r <= par.end

\* C5 as claimed: for every affine f(x) = (s (x - r), s), s # 0, r inside the
\* window, solve_root with the default caps returns a root with
\* |root - r| <= tol_days.
C5_AffineWithinTol ==
    AffineCase /\ pc \in {"done", "raised"} =>
        /\ Returned
        /\ Abs(res.root - fn.r) <= par.tol

Max(m, n) == IF m > n THEN m ELSE n

\* C5 amended: for every such f solve_root returns a root with
\* |f(root)| <= max(tol_days |s|, 1e-14): Newton accepts an iterate whose
\* value is within 1e-14 of zero however far it is from r.
C5_AffineWithinTolOrEps ==
    AffineCase /\ pc \in {"done", "raised"} =>
        /\ Returned
        /\ Abs(fn.s * (res.root - fn.r)) <= Max(par.tol * Abs(fn.s), VEps)

\* C5 witness: an affine f whose root the scan did not hit, solved by Newton
\* to within tol_days.
C5_Witness ==
    /\ AffineCase
    /\ Returned
    /\ res.method = "newton"
    /\ hist.newton > 1
    /\ Abs(res.root - fn.r) <= par.tol

\* the points bracket_root probes, in order, from the point p on: each the
\* float nearest to the one before plus step_days, and none beyond end_jd
RECURSIVE ProbedFrom(_)
ProbedFrom(p) ==
    IF p >= par.end \/ Fl(p + par.step) <= p THEN <<p>>
    ELSE <<p>> \o ProbedFrom(Min(Fl(p + par.step), par.end))

Probed == ProbedFrom(par.start)

\* bracket_root has returned the pair br, probed last at Probed[k]
ReturnedAt(k) ==
    /\ pc = "bracketed"
    /\ k \in DOMAIN Probed
    /\ br[2] = Probed[k]
    /\ \A i \in 1 .. k : Known(Probed[i])
    /\ \A i \in 1 .. k - 1 :
          /\ Sign(FVal(Probed[i])) # 0
          /\ Sign(FVal(Probed[i])) = Sign(FVal(par.start))
    /\ IF ZeroAt(br[2]) THEN br[1] = br[2]
       ELSE /\ k > 1
            /\ br[1] = Probed[k - 1]
            /\ Sign(FVal(br[2])) = -Sign(FVal(br[1]))
            /\ par.start <= br[1] /\ br[1] < br[2] /\ br[2] <= par.end

\* C29 as claimed: the pair bracket_root returns is (x, x) for the first
\* scan point, start_jd included, at which f is exactly zero, and otherwise
\* the first scan step (x, nx) at whose ends f has opposite non-zero signs,
\* with start_jd <= x < nx <= end_jd and nx - x <= step_days; at every scan
\* point before the returned one f has the sign it has at start_jd.
C29_FirstBracketWithinStep ==
    pc = "bracketed" =>
        /\ \E k \in DOMAIN Probed : ReturnedAt(k)
        /\ br[2] - br[1] <= par.step

\* C29: the pair bracket_root returns is (x, x) for the first scan point at
\* which f is exactly zero, and otherwise the first scan step (x, nx) at
\* whose ends f has opposite non-zero signs, with start_jd <= x < nx <=
\* end_jd and nx the float nearest to x + step_days or end_jd, so that
\* nx - x exceeds step_days by less than the distance of two floats at nx;
\* at every scan point before the returned one f has the sign it has at
\* start_jd.
C29_FirstBracket ==
    pc = "bracketed" =>
        /\ \E k \in DOMAIN Probed : ReturnedAt(k)
        /\ br[1] < br[2] =>
              /\ br[2] = Min(Fl(br[1] + par.step), par.end)
              /\ br[2] - br[1] < par.step + Ulp(br[2])

\* the scan returned a step that does not begin at start_jd and is longer
\* than step_days
C29_Witness ==
    /\ pc = "bracketed"
    /\ par.start < br[1]
    /\ br[2] - br[1] > par.step
    /\ br[2] < par.end

\* the ends (a, b) that bisection was called with
BisectionEnds == <<Min(br[1], br[2]), IF br[2] < br[1] THEN br[1] ELSE br[2]>>

\* the loop of bisection goes on
LoopGoesOn == it < par.bmax /\ hi - lo > par.tol

\* C30: throughout the loop of bisection a <= lo < hi <= b and f has
\* opposite non-zero signs at lo and hi; an iteration that keeps a half
\* halves hi - lo to the grid point and counts one; the loop goes on only
\* below max_iter iterations and while hi - lo > tol_days, and when it
\* stops the result is the midpoint of the last interval; a midpoint at
\* which f is exactly zero is returned at once; in both cases iterations
\* is the number of midpoints at which f was evaluated.
C30_BisectionInvariants ==
    /\ [](pc = "bisect" =>
            /\ BisectionEnds[1] <= lo /\ lo < hi /\ hi <= BisectionEnds[2]
            /\ Known(lo) /\ Known(hi)
            /\ Sign(FVal(lo)) # 0 /\ Sign(vlo) = Sign(FVal(lo))
            /\ Sign(FVal(hi)) = -Sign(FVal(lo))
            /\ it <= par.bmax
            /\ it = hist.bisect - 2)
    /\ [][pc = "bisect" =>
            IF LoopGoesOn
            THEN \/ /\ pc' = "bisect"
                    /\ it' = it + 1
                    /\ <<lo', hi'>> \in {<<Mid(lo, hi), hi>>, <<lo, Mid(lo, hi)>>}
                    /\ hi' - lo' \in {(hi - lo) \div 2, (hi - lo + 1) \div 2}
                 \/ /\ pc' = "done"
                    /\ res'.root = Mid(lo, hi)
                    /\ IF fn.kind = "table" THEN val'[res'.root] = 0
                       ELSE Formula(res'.root)[1] = 0
                    /\ res'.iterations = it + 1
                    /\ res'.iterations = hist'.bisect - 2
            ELSE /\ pc' = "done"
                 /\ res'.root = Mid(lo, hi)
                 /\ res'.iterations = it
                 /\ res'.iterations = hist'.bisect - 2]_vars

\* bisection halved its interval twice, stopped because the interval was
\* no wider than tol_days, and returned the midpoint, where f is not zero
C30_Witness ==
    /\ Returned
    /\ res.method = "bisection"
    /\ res.iterations = 2
    /\ hi - lo <= par.tol
    /\ res.root = Mid(lo, hi)
    /\ ~ZeroAt(res.root)

\* the scan of bracket_root probed a point where f is exactly zero
ScanHitZero ==
    /\ br # None
    /\ \E p \in ScanPoints : p <= br[2] /\ ZeroAt(p)

\* C31: the method of every result of solve_root is "newton", "bisection"
\* or "bracket_hit"; it is "bracket_hit" exactly when the scan probed a
\* point where f is exactly zero, and then the root is that point,
\* iterations is 0, the bracket is (x, x) and neither Newton nor bisection
\* has evaluated f; it is "newton" exactly when Newton evaluated f and
\* accepted, and "bisection" exactly when Newton raised and bisection ran.
C31_MethodNamesPath ==
    Returned =>
        /\ res.method \in {"newton", "bisection", "bracket_hit"}
        /\ (res.method = "bracket_hit") <=> ScanHitZero
        /\ (res.method = "bracket_hit") =>
              /\ ZeroAt(res.root)
              /\ res.root = br[2]
              /\ res.iterations = 0
              /\ res.bracket = <<res.root, res.root>>
              /\ hist.newton = 0 /\ hist.bisect = 0
        /\ (res.method = "newton") <=> (hist.newton > 0 /\ hist.nraise = "none")
        /\ (res.method = "bisection") <=> (hist.nraise # "none" /\ hist.bisect >= 2)

\* Newton met a speed below min_speed, and bisection returned a midpoint
\* where f is exactly zero: the method is "bisection", not "bracket_hit"
C31_Witness ==
    /\ Returned
    /\ hist.nraise = "speed"
    /\ res.method = "bisection"
    /\ res.iterations > 0
    /\ ZeroAt(res.root)

\* the grid points of the search window of the call
Window == par.start .. par.end

\* the residual of the finder at jd, and the index it is computed from
ResidualAt(jd) == Residual(jd)[1]

IndexValue(jd) == IndexAt(fn.kind, fn.eph, jd)[1]

\* what the cycle-unwrap rule does to the index v, r being the residual
LiftRule(v, r) ==
    r + fn.target = IF fn.target = fn.period /\ 2 * v < fn.period THEN v + fn.period ELSE v

\* the index followed from its value c at start_jd at the speed s
Followed(c, s, jd) == c + s * (jd - par.start)

Terminated == pc \in {"bracketed", "done", "raised"}

\* the points the scan of bracket_root visits: start_jd, then the float
\* nearest to x + step_days, capped at end_jd, for as long as it advances
ScanPointCount == Len(Probed)

\* the scan loop of bracket_root is about to probe a point beyond x
ScanAdvances == Min(Fl(x + par.step), par.end) > x

\* C32: the call terminates for every f, every window with end > start and
\* every scan step > 0, after at most one evaluation of f per scan point,
\* at most newton_max_iter evaluations in Newton and at most
\* bisection_max_iter + 2 in bisection: every pass of the scan loop probes
\* a new point, and the evaluations counted stay within these numbers.
C32_TerminatesWithinBounds ==
    pc # "idle" =>
        /\ (pc = "fscan" /\ x < par.end) => ScanAdvances
        /\ hist.scan <= ScanPointCount
        /\ hist.newton <= par.nmax
        /\ hist.bisect <= par.bmax + 2

---------------------------------------------------------------------------
(* Properties of the session context *)

\* the sessions between a completed entry and their exit
ActiveSessions == { <<t, i>> \in Threads \X (1 .. MaxEnters) : i <= Len(stack[t]) }

\* thread t is inside __enter__, past _lock.acquire()
Entering(t) == tpc[t] = "install"

\* thread t is blocked in or about to call _lock.acquire()
Waiting(t) == tpc[t] = "acquire"

\* C8: strictly one session is active at a time per process: no two
\* sessions, of different threads or nested inside one thread, are
\* simultaneously between a completed entry and their exit.
C8_OneActiveSession == Cardinality(ActiveSessions) <= 1

\* a step is the exit of a session of thread t
IsExit(t) == Len(stack'[t]) < Len(stack[t])

\* C9: whenever an entered session exits (normally, after the body raised,
\* or while the topocentric reset raises) the exit releases the mutex
\* exactly once, so a thread waiting to enter a session eventually enters.
C9_ExitReleasesOnceWaiterEnters ==
    /\ [][\A t \in Threads : IsExit(t) => lockCount' = lockCount - 1]_vars
    /\ \A t \in Threads : Waiting(t) ~> Entering(t)

\* C10: an entry that fails after the mutex was acquired never leaves the
\* mutex held: the mutex is held once for every active session and once
\* for every entry under way, and is free otherwise.
C10_FailedEntryReleasesMutex ==
    /\ lockCount = Cardinality(ActiveSessions)
                     + Cardinality({ t \in Threads : Entering(t) })
    /\ \A t \in Threads :
          stack[t] = <<>> /\ ~Entering(t) => lockOwner # t

\* thread t is where a session makes its engine calls: inside __enter__
\* past the acquire, or between entry and exit, __exit__ included
InSession(t) == Entering(t) \/ stack[t] # <<>>

\* a step in which thread t goes through __enter__ or __exit__
IsEngineStep(t) ==
    \/ tpc[t] = "install" /\ tpc'[t] # "install"
    \/ IsExit(t)

\* C24: while a session of a thread is between entry and exit no session of
\* another thread changes the engine: a thread is in a position to make the
\* engine calls of a session only while it holds the mutex, no two threads
\* are in that position at once, and while one thread has a session the
\* other threads neither enter nor exit one and leave the engine as it is.
C24_ScopesSerialized ==
    /\ [](\A t \in Threads : InSession(t) => lockOwner = t /\ lockCount >= 1)
    /\ [](\A t, u \in Threads : t # u /\ stack[t] # <<>> => ~InSession(u))
    /\ [][\A t, u \in Threads :
            t # u /\ stack[t] # <<>> =>
              /\ ~IsEngineStep(u)
              /\ stack'[u] = stack[u]
              /\ (engine' # engine => IsEngineStep(t))]_vars

\* a thread has a session that installed a sidereal mode, and another
\* thread is blocked at the mutex
C24_Witness ==
    \E t, u \in Threads :
      /\ t # u
      /\ stack[t] # <<>>
      /\ engine.sid # "unset"
      /\ Waiting(u)

\* the session that a step of thread t exits
Exiting(t) == stack[t][Len(stack[t])]

\* C25: the exit of a session that pushed its site as topocentric origin,
\* with reset_topo_on_exit true, leaves the engine's origin at (0,0,0)
\* unless the reset call itself raises and the exit with it; the exit of a
\* session that pushed none, or with reset_topo_on_exit false, makes no
\* set_topo call and leaves the engine as it is.
C25_ExitResetsOwnTopo ==
    [][\A t \in Threads :
         IsExit(t) =>
           IF Exiting(t).pushed /\ Exiting(t).config.reset
           THEN engine'.topo = 0 \/ (exc'[t] /\ engine' = engine)
           ELSE engine' = engine]_vars

\* a step is the completed entry of a session of thread t
IsEntry(t) == Len(stack'[t]) > Len(stack[t])

\* the session that a step of thread t enters
Entered(t) == stack'[t][Len(stack'[t])]

\* the built-in members of AyanamsaMode that a session may configure
BuiltInModes == { c.ayan : c \in Configs } \ {"UserDefined"}

\* C26: the entry of a session with a SIDEREAL Calibration installs the
\* engine's sidereal mode from the Calibration: the user-defined mode when
\* the ayanamsa mode is USER_DEFINED, otherwise a built-in engine mode that
\* no other built-in ayanamsa mode would install; the entry of a session
\* with a TROPICAL Calibration leaves the sidereal mode as it is.
C26_SiderealModeInstalled ==
    [][\A t \in Threads :
         IsEntry(t) =>
           LET c == Entered(t).config
           IN  IF c.zodiac = "Tropical" THEN engine'.sid = engine.sid
               ELSE IF c.ayan = "UserDefined" THEN engine'.sid = "SIDM_USER"
               ELSE /\ engine'.sid \notin {"unset", "SIDM_USER"}
                    /\ \A a \in BuiltInModes \ {c.ayan} :
                          engine'.sid # SidModeOf(a)]_vars

---------------------------------------------------------------------------
(* Properties of the Provider *)

\* two calls ask the same of their Providers
SameQuery(c1, c2) ==
    /\ c1.op = c2.op
    /\ c1.body = c2.body
    /\ c1.jd = c2.jd

\* C11: two sessions with equal Calibration signatures and the same site
\* obtain the same value from every provider operation with the same
\* arguments, whatever sessions ran before them (stated of the values the
\* Providers fetch, the cache not being involved).
C11_EqualSignatureEqualResults ==
    \A c1, c2 \in calls :
        /\ c1.by # c2.by
        /\ c1.sig = c2.sig
        /\ c1.site = c2.site
        /\ SameQuery(c1, c2)
        /\ ~c1.hit /\ ~c2.hit
        => c1.out = c2.out

\* the Providers of the sessions the threads are in
ActiveProviders ==
    UNION { { stack[t][i].provider : i \in DOMAIN stack[t] } : t \in Threads }

\* what an entry of session i of thread t leaves in place: a Provider that
\* no session had before, with an empty cache
EntryOf(t) ==
    /\ tpc[t] = "install"
    /\ tpc'[t] = "run"
    /\ Len(stack'[t]) = Len(stack[t]) + 1

FreshProvider(t) ==
    LET p == stack'[t][Len(stack'[t])].provider
    IN  /\ DOMAIN p.cache = {}
        /\ \A q \in ActiveProviders : q.id # p.id
        /\ \A c \in calls : c.by # p.id

\* C12: every session entry yields a new Provider whose cache is empty, and
\* no cache entry written through the Provider of one session is read
\* through the Provider of another: every value a call returns from the
\* cache was stored by the Provider the call was made on, and every entry
\* of a cache was written through its own Provider.
C12_FreshProviderOwnCache ==
    /\ [][\A t \in Threads : EntryOf(t) => FreshProvider(t)]_vars
    /\ [](\A c \in calls : c.src = c.by)
    /\ [](\A p \in ActiveProviders :
             \A k \in DOMAIN p.cache : p.cache[k].by = p.id)

\* two Providers of sessions of one signature were asked the same, and the
\* second has stored its own answer
C12_Witness ==
    \E c1, c2 \in calls :
        /\ c1.by # c2.by
        /\ c1.sig = c2.sig
        /\ SameQuery(c1, c2)
        /\ \E p \in ActiveProviders : p.id = c2.by /\ DOMAIN p.cache # {}

\* C13: within one Provider the same operation called twice with
\* quantization-equivalent arguments (the instants round to one key, the
\* body the same) returns identical values, whatever was called in between.
C13_CacheDeterminism ==
    \A c1, c2 \in calls :
        /\ c1.by = c2.by
        /\ c1.op = c2.op
        /\ c1.body = c2.body
        /\ JdKey(c1.jd) = JdKey(c2.jd)
        => c1.out = c2.out

\* one Provider was asked for two instants of one key, and the engine would
\* have answered the second otherwise than the first
C13_Witness ==
    \E c1, c2 \in calls :
        /\ c1.by = c2.by
        /\ c1.op = c2.op
        /\ c1.body = c2.body
        /\ c1.jd # c2.jd
        /\ JdKey(c1.jd) = JdKey(c2.jd)
        /\ c2.hit
        /\ c2.oracle # c1.oracle

\* the cache of the Provider p as a step leaves it; the empty cache if the
\* session of p has exited
CacheAfter(p) ==
    LET held == UNION { { <<t, i>> : i \in { j \in DOMAIN stack'[t] :
                                    stack'[t][j].provider.id = p.id } } :
                        t \in Threads }
    IN  IF held = {} THEN <<>>
        ELSE LET h == CHOOSE h \in held : TRUE
             IN  stack'[h[1]][h[2]].provider.cache

\* the session of the Provider p is still open after a step
Alive(p) ==
    \E t \in Threads : \E i \in DOMAIN stack'[t] : stack'[t][i].provider.id = p.id

IsError(v) == v.of = "OracleError"

\* two calls look up the same cache key of one Provider
SameKey(c1, c2) ==
    /\ c1.by = c2.by
    /\ c1.op = c2.op
    /\ c1.body = c2.body
    /\ JdKey(c1.jd) = JdKey(c2.jd)

\* C28: when the engine raises during a provider operation the caller gets
\* the engine's exception and nothing else, the operation asks the engine
\* once, and nothing is stored for the query: no cache holds an exception,
\* and the next call with the same arguments asks the engine again unless
\* a call that the engine answered has stored the key in between.
C28_OracleErrorPropagates ==
    /\ [][\A c \in calls' \ calls :
            /\ IsError(c.oracle) =>
                  c.out = c.oracle /\ ~c.hit /\ stack' = stack
            /\ (\E c0 \in calls : IsError(c0.out) /\ c0.by = c.by
                                     /\ SameQuery(c0, c))
                 /\ (\A c1 \in calls : SameKey(c1, c) => IsError(c1.out))
                 => ~c.hit /\ c.out = c.oracle]_vars
    /\ [](\A p \in ActiveProviders :
             \A k \in DOMAIN p.cache : ~IsError(p.cache[k].value))

\* the engine raised for a query and answered the same query of the same
\* Provider when it was asked again
C28_Witness ==
    \E c0, c \in calls :
        /\ c0.by = c.by /\ SameQuery(c0, c)
        /\ IsError(c0.out)
        /\ ~IsError(c.out) /\ ~c.hit
        /\ \E p \in ActiveProviders : p.id = c.by /\ DOMAIN p.cache # {}

\* C14: a cache hit or miss is never observable: every provider operation
\* returns the value the engine yields for the very arguments of the call.
C14_CacheUnobservable ==
    \A c \in calls : c.out = c.oracle

\* the node variant of the Calibration
NodeVariant(cal) == IF cal.nodes = "TRUE" THEN "TRUE_NODE" ELSE "MEAN_NODE"

\* two calls ask one Provider for a node at the same quantized jd
SameNodeInstant(c, d) ==
    /\ c.by = d.by
    /\ c.body \in NodeBodies /\ d.body \in NodeBodies
    /\ JdKey(c.jd) = JdKey(d.jd)

DrikQuery(jd, rise) ==
    RiseTrans(jd, "SUN", {},
              {CalcBit(rise), "BIT_HINDU_RISING", "FLG_TRUEPOS", "FLG_SPEED"},
              <<0, 0, 0>>, <<>>, <<>>)

\* the value of an optional argument, or the default when it is not given
GivenOr(arg, default) == IF arg = <<>> THEN <<default>> ELSE arg

\* C36: under the PYJHORA_DRIK style rise_set does not depend on the site
\* altitude or on atpress/attemp: two calls that differ only in those issue
\* the same engine query (Hindu-rising bit with true-position and speed
\* flags, altitude 0, no pressure or temperature), map to the same cache
\* key and return the same result; under DISC_POLICY the disc and
\* refraction settings select the engine bits, and pressure and temperature
\* default to the Calibration's atmosphere when not given.
C36_DrikIgnoresAltitudeAndAir ==
    \A c \in calls :
        c.op = "rise_set" =>
            LET p == prov[c.by]
                sunrise == p.config.sunrise
            IN  /\ c.key \in DOMAIN p.cache
                /\ c.out = p.cache[c.key]
                /\ IF sunrise.style = "PYJHORA_DRiK"
                   THEN /\ c.asked = DrikQuery(c.jd, c.rise)
                        /\ \A d \in calls :
                              (d.jd = c.jd /\ d.rise = c.rise) =>
                                  /\ d.asked = c.asked
                                  /\ d.key = c.key
                                  /\ d.out = c.out
                   ELSE /\ c.asked.ephe_flags = {"SWIEPH"}
                        /\ c.asked.rsmi =
                              {CalcBit(c.rise),
                               IF sunrise.disc = "DISC_CENTER"
                               THEN "BIT_DISC_CENTER" ELSE "BIT_DISC_BOTTOM"}
                                \cup (IF sunrise.use_refraction THEN {}
                                      ELSE {"BIT_NO_REFRACTION"})
                        /\ c.asked.geopos = <<0, 0, p.alt_m>>
                        /\ c.asked.atpress =
                              GivenOr(c.atpress, sunrise.atmosphere.pressure_mbar)
                        /\ c.asked.attemp =
                              GivenOr(c.attemp, sunrise.atmosphere.temperature_c)
                        /\ c.out = c.asked

\* C36 witness: under PYJHORA_DRiK the Providers of two sites of different
\* altitude were asked with different atpress and attemp, both asked the
\* engine, with the same query, and returned the same
C36_Witness ==
    \E c, d \in calls :
        /\ c.op = "rise_set" /\ d.op = "rise_set"
        /\ prov[c.by].config.sunrise.style = "PYJHORA_DRiK"
        /\ prov[c.by].alt_m # prov[d.by].alt_m
        /\ c.rise = d.rise
        /\ c.atpress # d.atpress /\ c.attemp # d.attemp
        /\ ~c.hit /\ ~d.hit
        /\ c.asked = d.asked /\ c.key = d.key /\ c.out = d.out

---------------------------------------------------------------------------
(* Properties of the Calibration *)

\* the CalibrationConfig instances and what they hold
Instances == DOMAIN insts

ValueOf(i) == Value(objs, insts[i])

\* C15: Calibration instances share no nested sub-record: an assignment to
\* a nested field of one instance leaves the field values and the signature
\* of every other instance as they were.
C15_NoSharedSubrecord ==
    /\ [](\A i, j \in Instances :
            i # j => Refs(objs, insts[i]) \cap Refs(objs, insts[j]) = {})
    /\ [][\A i, j \in Instances :
            /\ i # j
            /\ ValueOf(i)' # ValueOf(i)
            => /\ ValueOf(j)' = ValueOf(j)
               /\ Signature(ValueOf(j))' = Signature(ValueOf(j))]_vars

\* C16: signature() is a pure function of the Calibration that covers every
\* field: a call leaves every instance and sub-record as it was and returns
\* the tuple of the fields as they are, and two Calibrations have equal
\* signatures if and only if all their fields, nested ones included, are
\* equal.
C16_SignaturePureInjective ==
    /\ [](\A i, j \in Instances :
            Signature(ValueOf(i)) = Signature(ValueOf(j))
              <=> ValueOf(i) = ValueOf(j))
    /\ [](sigOut # None => sigOut.sig = Signature(ValueOf(sigOut.inst)))
    /\ [][sigOut' # None => UNCHANGED <<objs, insts>>]_vars

\* signature() was called on one of two instances that differ in a field
C16_Witness ==
    /\ sigOut # None
    /\ \E j \in Instances : ValueOf(j) # ValueOf(sigOut.inst)

---------------------------------------------------------------------------
(* Properties of the angle helpers *)

Called(op) == acall # None /\ acall.op = op

\* the rounding a result of an angle helper may carry: the operations
\* round at the magnitude of the operands
Tol(v, t, p) == 2 * Ulp(Abs(v) + Abs(t) + p)

\* how far d is from a whole multiple of p
OffMultiple(d, p) == Min(d % p, p - (d % p))

\* C17: normalize_angle(a, start, period) lies in [start, start + period),
\* differs from a by a whole multiple of period (up to the rounding of its
\* operations) and is idempotent, and norm_deg(d) is
\* normalize_angle(d, 0, 360).
C17_NormalizeInRange ==
    /\ Called("normalize_angle") =>
          /\ acall.s <= acall.out
          /\ acall.out < acall.s + acall.p
          /\ OffMultiple(acall.out - acall.a, acall.p)
                <= Tol(acall.a, acall.s, acall.p)
          /\ NormalizeAngle(acall.out, acall.s, acall.p) = acall.out
    /\ Called("norm_deg") => acall.out = NormalizeAngle(acall.a, 0, Turn)

\* the rows (0.1, 30, 30) -> 30.1, (29.9, 0, 30) -> -0.1, (15, 14, 30) -> 15
\* and (2, 25, 27) -> 29 of unwrap_relative, in tenths
UnwrapRows ==
    { <<1, 300, 300, 301>>, <<299, 0, 300, -1>>, <<150, 140, 300, 150>>,
      <<20, 250, 270, 290>> }

RowsHold ==
    \A r \in UnwrapRows :
        acall.v = r[1] /\ acall.t = r[2] /\ acall.p = r[3] => acall.out = r[4]

\* unwrap_relative as stated: the result differs from val by a whole
\* multiple of period, its difference from target lies in [-period/2,
\* period/2), the two implementations agree and the rows hold
C18_UnwrapRelativeAsStated ==
    Called("unwrap_relative") =>
        /\ (acall.out - acall.v) % acall.p = 0
        /\ -Half(acall.p) <= acall.out - acall.t
        /\ acall.out - acall.t < Half(acall.p)
        /\ acall.temporal = acall.out
        /\ RowsHold

\* C18: unwrap_relative(val, target, period) differs from val by a whole
\* multiple of period and lies within period/2 of target, both up to the
\* rounding of its operations, the difference it adds to target lying in
\* the closed interval [-period/2, period/2]; when no operation rounds the
\* multiple is exact and the difference lies in [-period/2, period/2); the
\* two implementations return the same float and the rows hold.
C18_UnwrapRelativeRounded ==
    Called("unwrap_relative") =>
        LET v == acall.v
            t == acall.t
            p == acall.p
            d == UnwrapDiff(v, t, p)
        IN  /\ OffMultiple(acall.out - v, p) <= Tol(v, t, p)
            /\ -Half(p) <= d /\ d <= Half(p)
            /\ Abs(acall.out - t) <= Half(p) + Tol(v, t, p)
            /\ UnwrapExact(v, t, p) =>
                  /\ (acall.out - v) % p = 0
                  /\ -Half(p) <= acall.out - t
                  /\ acall.out - t < Half(p)
            /\ acall.temporal = acall.out
            /\ RowsHold

\* val - target + period/2 is so small a negative number that the
\* remainder rounds to the period: the result is target + period/2
C18_Witness ==
    /\ Called("unwrap_relative")
    /\ ~UnwrapExact(acall.v, acall.t, acall.p)
    /\ acall.out - acall.t = Half(acall.p)

StrictlyMonotone(q) ==
    \/ \A k \in 1 .. Len(q) - 1 : q[k] < q[k + 1]
    \/ \A k \in 1 .. Len(q) - 1 : q[k] > q[k + 1]

\* what C19 says of the result b of unwrap_angles on the samples of t
UnwrapsTo(t, seq, b) ==
    /\ Len(b) = Len(seq)
    /\ b[1] = seq[1]
    /\ \A k \in 1 .. Len(b) : b[k] - b[1] = t[k] - t[1]
    /\ StrictlyMonotone(b) <=> StrictlyMonotone(t)

RECURSIVE Copies(_, _, _)
Copies(xs, p, k) ==
    IF k = 0 THEN xs
    ELSE Copies(xs, p, k - 1) \o [i \in DOMAIN xs |-> Fl(xs[i] + Fl(k * p))]

Covered(q) == SeqMax(q) - SeqMin(q)

\* C20: extend_angle_range is total on a non-empty input: the list is the
\* input followed by the copies xs + k * period, k = 1, 2, ..., so that
\* every pass of the loop covers more than the list before it, and the
\* list returned covers the span.
C20_ExtendTotal ==
    (ext # None /\ ext.base # <<>>) =>
        /\ ext.out = Copies(ext.base, ext.period, ext.passes)
        /\ ext.passes >= 1 =>
              Covered(ext.out) >
                Covered(SubSeq(ext.out, 1, Len(ext.out) - Len(ext.base)))
        /\ ext.pc = "done" => Fl(Covered(ext.out)) >= ext.span
\* the unwrap-relative table in tenths: val, target, period and the value
\* required (0.1, 30, 30 -> 30.1; 29.9, 0, 30 -> -0.1; 15, 14, 30 -> 15;
\* 2, 25, 27 -> 29)
UnwrapTable ==
    { <<1, 300, 300, 301>>, <<299, 0, 300, -1>>,
      <<150, 140, 300, 150>>, <<20, 250, 270, 290>> }

\* C34: for every row (val, target, period) of the unwrap-relative table
\* _unwrap_cycle(val, target, period) equals unwrap_relative(val, target,
\* period), which is the value of the table.
C34_UnwrapCycleMatchesTable ==
    \A row \in UnwrapTable :
        (acall # None /\ acall.op = "unwrap_cycle"
           /\ acall.v = row[1] /\ acall.t = row[2] /\ acall.p = row[3])
        => /\ acall.temporal = row[4]
           /\ acall.out = acall.temporal


---------------------------------------------------------------------------
(* Properties of inverse_lagrange *)

\* the sets of samples that are the max_points (at least 2) nearest to the
\* target: no sample left out is nearer than one kept
NearestSets(c) ==
    { K \in SUBSET DOMAIN c.ys :
        /\ Cardinality(K) = Min(Len(c.ys), Max(2, c.max_points))
        /\ \A i \in K, j \in DOMAIN c.ys \ K :
             Abs(c.ys[i] - c.yt) <= Abs(c.ys[j] - c.yt) }

\* C21: inverse_lagrange decides in this order: lists of different length
\* or of fewer than 2 points are an invalid input; otherwise, of the
\* max_points samples nearest to the target, the x of one whose y is within
\* eps of the target is returned if there is one, duplicated y or not;
\* otherwise two kept y within eps of each other make the call fail as
\* ill-defined; only then does it interpolate.
C21_OutcomeOrder ==
    Called("inverse_lagrange") =>
      LET c == acall
          o == c.out
      IN  IF Len(c.xs) # Len(c.ys) \/ Len(c.ys) < 2
          THEN o.raises = "ValueError" /\ o.line \in {38, 41}
          ELSE \E K \in NearestSets(c) :
                 LET hits == { i \in K : WithinEps(c.yt - c.ys[i]) }
                 IN  IF hits # {}
                     THEN /\ o.raises = "none"
                          /\ o.line = 55
                          /\ \E i \in hits : o.num = c.xs[i] /\ o.den = 1
                     ELSE IF \E i, j \in K :
                               i # j /\ WithinEps(c.ys[i] - c.ys[j])
                     THEN o.raises = "ValueError" /\ o.line = 61
                     ELSE o.line \in {72, 83, 85}

\* more samples than are kept, two of the kept ones have the same y, and
\* the call returned the x of a kept sample that is within eps
C21_Witness ==
    /\ Called("inverse_lagrange")
    /\ Len(acall.xs) = Len(acall.ys)
    /\ Len(acall.ys) > Max(2, acall.max_points)
    /\ LET idx == KeptIndices(acall.ys, acall.yt, acall.max_points)
       IN  \E i, j \in DOMAIN idx :
             i # j /\ acall.ys[idx[i]] = acall.ys[idx[j]]
    /\ acall.out.line = 55

\* the samples the call kept, as the function holds them
KeptYs(c) ==
    LET idx == KeptIndices(c.ys, c.yt, c.max_points)
    IN  [i \in DOMAIN idx |-> c.ys[idx[i]]]

\* the product of (y_i - y_j), j # i, of the kept sample i has a magnitude
\* below eps
SmallProduct(ys, i) ==
    Abs(WeightDenom(ys, i)) * EpsInv < YScale ^ (Len(ys) - 1)

\* C22: once inverse_lagrange is past the exact hit and the duplicates, it
\* fails as ill-conditioned whenever the product behind the weight of some
\* kept sample has a magnitude below eps and whenever the barycentric
\* denominator has a magnitude <= eps; it returns no value computed from
\* such a weight.
C22_SmallWeightFails ==
    (Called("inverse_lagrange") /\ acall.out.line \in {72, 83, 85}) =>
      LET ys == KeptYs(acall)
      IN  ((\E i \in DOMAIN ys : SmallProduct(ys, i))
              \/ DenWithinEps(ys, acall.yt))
            => acall.out.raises = "ZeroDivisionError"

\* the polynomials y(x) = c + b x + q x^2 on the grid of the y values
Polynomials == [c : YValues, b : -MaxY .. MaxY, q : {-1, 0, 1}]

Degree(k) == IF k.q # 0 THEN 2 ELSE IF k.b # 0 THEN 1 ELSE 0

\* the polynomials of degree 1
Lines == { k \in Polynomials : Degree(k) = 1 }

\* the lines through the first sample of the call
LinesThrough(c) ==
    IF c.xs = <<>> \/ c.ys = <<>> THEN {}
    ELSE { [c |-> c.ys[1] - b * c.xs[1], b |-> b, q |-> 0] :
             b \in { s \in -MaxY .. MaxY :
                       s # 0 /\ c.ys[1] - s * c.xs[1] \in YValues } }

\* y(n/d) times d^2
PolyAt(k, n, d) == k.c * d * d + k.b * n * d + k.q * n * n

\* the call was handed samples (x_i, y(x_i)) of the polynomial k
SampledFrom(c, k) ==
    /\ Len(c.xs) = Len(c.ys)
    /\ Len(c.xs) >= 2
    /\ \A i \in DOMAIN c.xs : c.ys[i] = PolyAt(k, c.xs[i], 1)

\* the result is the linear inverse x_0 + (yt - y_0)(x_1 - x_0)/(y_1 - y_0)
LinearInverse(c) ==
    c.out.num * (c.ys[2] - c.ys[1]) =
      c.out.den * (c.xs[1] * (c.ys[2] - c.ys[1])
                     + (c.yt - c.ys[1]) * (c.xs[2] - c.xs[1]))

\* C23 as stated: for samples of a polynomial y of degree < max_points with
\* pairwise distinct y_i the call returns x* with y(x*) = y_target, and for
\* degree 1 the linear inverse.
C23_RoundTripAsStated ==
    Called("inverse_lagrange") =>
      \A k \in Polynomials :
        ( /\ SampledFrom(acall, k)
          /\ Degree(k) < acall.max_points
          /\ \A i, j \in DOMAIN acall.ys : i # j => acall.ys[i] # acall.ys[j] )
        => /\ acall.out.raises = "none"
           /\ PolyAt(k, acall.out.num, acall.out.den)
                = acall.yt * acall.out.den * acall.out.den
           /\ Degree(k) = 1 => LinearInverse(acall)

\* C23 amended: for samples of a polynomial y of degree 1 whose y_i lie
\* pairwise more than eps apart, the call returns the x of a kept sample
\* whose y is within eps of y_target if there is one; otherwise it fails as
\* ill-conditioned if the barycentric denominator is within eps of 0, and
\* else returns the linear inverse x*, for which y(x*) = y_target.
C23_RoundTripLinear ==
    Called("inverse_lagrange") =>
      \A k \in LinesThrough(acall) :
        ( /\ SampledFrom(acall, k)
          /\ \A i, j \in DOMAIN acall.ys :
               i # j => ~WithinEps(acall.ys[i] - acall.ys[j]) )
        => LET ys == KeptYs(acall)
               o == acall.out
           IN  IF \E i \in DOMAIN ys : WithinEps(acall.yt - ys[i])
               THEN /\ o.raises = "none"
                    /\ o.den = 1
                    /\ WithinEps(acall.yt - PolyAt(k, o.num, 1))
               ELSE IF DenWithinEps(ys, acall.yt)
               THEN o.raises = "ZeroDivisionError"
               ELSE /\ o.raises = "none"
                    /\ LinearInverse(acall)
                    /\ PolyAt(k, o.num, o.den) = acall.yt * o.den * o.den

\* samples of a line and a target between two of them, within eps of
\* neither: the call interpolated and returned an x between the samples
C23_Witness ==
    /\ Called("inverse_lagrange")
    /\ \E k \in Lines : SampledFrom(acall, k)
    /\ acall.out.line = 85
    /\ acall.out.den > 1
    /\ \E i, j \in DOMAIN acall.xs :
          /\ acall.xs[i] * acall.out.den < acall.out.num
          /\ acall.out.num < acall.xs[j] * acall.out.den

====
